---- MODULE Spec2Model ----
(***************************************************************************)
(* Model of orby_rs: the columnar ring store (src/logic/ring.rs), its      *)
(* facade (src/engine/api.rs, src/engine/mod.rs) and the latest-first scan *)
(* iterator (src/engine/iter.rs), with the Vault files and the append-only *)
(* log of src/engine/persistence.                                           *)
(*                                                                         *)
(* Physical slot i (0-based in the source) of lane d (0-based) is          *)
(* lanes[d + 1][i + 1] here; cursor, len and every index an operator takes *)
(* or returns are 0-based as in the source.                                *)
(***************************************************************************)
EXTENDS Integers, Sequences, FiniteSets, TLC

\* ----------------------------------------------------------------- bounds
\* Largest configured capacity C (ring_buffer_lane_item_count).
MaxCapacity == 3
\* Largest configured lane count D (ring_buffer_lane_count).
MaxLaneCount == 2
\* Largest number of cells C * D of a configured Silo.
MaxCells == 4
\* Cells hold values 0..MaxVal (0 is the tombstone value).
MaxVal == 2
\* Longest batch handed to a facade operation.
MaxBatch == 2
\* SpecWrap inserts up to capacity + MaxWrap marked rows.
MaxWrap == 2
\* SpecAof stops once the AOF channel has carried MaxLog messages.
MaxLog == 1
\* Largest number of cells C * D of a Silo built with a Vault or with AOF.
MaxPersistCells == 2
\* A long batch holds C + MaxOverrun rows.
MaxOverrun == 2
\* Tasks that call the facade concurrently.
MaxWriters == 2
\* Facade calls one task makes.
MaxCalls == 2
\* Buffers the AOF channel holds in the model (AOF_CHANNEL_SIZE in the program).
MaxChannel == 2

\* -------------------------------------------------------- program constants
PULSE_SIZE == 16
AOF_OP_INSERT == 1
AOF_OP_PURGE == 2
AOF_OP_UPDATE == 3
AOF_OP_TRUNCATE == 4
AOF_OP_LANE_BATCH == 5
STORAGE_MAGIC_V1 == "ORBY_DATA_V1_LE "
\* vault_delete_and_compact moves the lane files in blocks of this many bytes.
buf_size == 65536

VARIABLES
    lanes,                   \* OrbyRingBufferSilo.lanes: D lanes of C cells
    cursor,                  \* OrbyRingBufferSilo.cursor
    len,                     \* OrbyRingBufferSilo.len
    capacity,                \* OrbyRingBufferSilo.capacity (C)
    ring_buffer_lane_count,  \* OrbyRingBufferSilo.ring_buffer_lane_count (D)
    compaction,              \* OrbyRingBufferSilo.compaction
    inserted,                \* SpecWrap only: the rows inserted so far, oldest first
    storage_mode,            \* OrbyRingBufferSilo.storage_mode: "MemoryOnly" or "Vault"
    aof_enabled,             \* OrbyRingBufferSilo.aof_sender.is_some()
    vault,                   \* the Vault directory: header.bin and lane_<d>.bin, as a
                             \* crash would leave them once every write so far is on disk
    aof,                     \* the buffers the AOF appender has taken off the channel
                             \* and written to the file, in order
    pending,                 \* SpecCommit only: the I/O of the Vault commit under way
    rwlock,                  \* Orby.inner's RwLock: the task holding it for writing
                             \* (0 for none) and the number of read guards alive
    task,                    \* per calling task: where it stands in its facade call
    serial,                  \* lanes, cursor and len had the calls run one after the
                             \* other in the order they took the write lock
    channel,                 \* the buffers in the AOF channel, oldest first
    worker,                  \* the AOF appender task: "absent", "running", "terminated"
    engine_alive,            \* some handle of the engine (and so its Sender) is alive
    applied,                 \* the AOF buffers of the calls, in the order the calls
                             \* released the write lock
    iter,                    \* the OrbyIterator a reader holds, if any
    sleeper                  \* the task that calls sleep(): where it stands, whether
                             \* it holds a read guard, and the Silo it took the guard on

taskVars == <<rwlock, task, serial, channel, worker, engine_alive, applied, iter, sleeper>>

vars == <<lanes, cursor, len, capacity, ring_buffer_lane_count, compaction, inserted,
          storage_mode, aof_enabled, vault, aof, pending,
          rwlock, task, serial, channel, worker, engine_alive, applied, iter, sleeper>>

\* The Silo as the record the ring logic receives (&mut OrbyRingBufferSilo);
\* aof_sender and vault_path tell whether the Option is Some.
Silo ==
    [lanes |-> lanes, cursor |-> cursor, len |-> len, capacity |-> capacity,
     ring_buffer_lane_count |-> ring_buffer_lane_count, compaction |-> compaction,
     aof_sender |-> aof_enabled, vault_path |-> storage_mode = "Vault"]

\* ---------------------------------------------------------------- helpers
Values == 0..MaxVal

\* vec![PulseCell::new(0); capacity]
OrbyRingBuffer_new(cap) == [i \in 1..cap |-> 0]

\* All sequences over S of length n, and of length lo..hi.
SeqsOfLen(S, n) == [1..n -> S]
SeqsUpTo(S, lo, hi) == UNION {SeqsOfLen(S, n) : n \in lo..hi}

Min(a, b) == IF a < b THEN a ELSE b

\* The first n elements of s (Iterator::take / Vec::truncate).
Take(s, n) == IF n >= Len(s) THEN s ELSE SubSeq(s, 1, n)

\* (a..b-1).rev() as a sequence: b-1, b-2, ..., a.
RevRange(a, b) == [i \in 1..(IF b > a THEN b - a ELSE 0) |-> b - i]

\* has_mem: the in-memory lanes are allocated.
has_mem(store) == Len(store.lanes) # 0 /\ Len(store.lanes[1]) # 0

\* The row at physical slot i, gathered one cell per lane.
RowAt(store, i) == [col \in 1..store.ring_buffer_lane_count |-> store.lanes[col][i + 1]]

\* row_cells.iter().all(|v| v.as_u128() == 0)
IsTombstone(row) == \A col \in 1..Len(row) : row[col] = 0

\* for (col, &val) in slice.iter().enumerate() { lanes[col].buffer[idx] = val }
WriteRow(ls, idx, row) ==
    [col \in 1..Len(ls) |->
        IF col <= Len(row) THEN [ls[col] EXCEPT ![idx + 1] = row[col]] ELSE ls[col]]

\* for lane in &mut store.lanes { lane.buffer[idx] = PulseCell::new(0) }
ZeroRow(ls, idx) == [col \in 1..Len(ls) |-> [ls[col] EXCEPT ![idx + 1] = 0]]

\* ------------------------------------------------------------- ring logic
\* insert_row with the cursor advanced before the row is written.
insert_row_late_write(store, slice) ==
    LET cap == store.capacity
        c == (store.cursor + 1) % cap
        is_overwrite == store.lanes[1][c + 1] # 0
    IN  [store EXCEPT
            !.lanes = WriteRow(store.lanes, c, slice),
            !.len = IF ~is_overwrite /\ store.len < cap THEN store.len + 1 ELSE store.len,
            !.cursor = c]

\* One iteration of the insert loop, for a row of the right length.
insert_row(store, slice) ==
    LET c == store.cursor
        cap == store.capacity
        is_overwrite == store.lanes[1][c + 1] # 0
    IN  IF has_mem(store)
        THEN [store EXCEPT
                !.lanes = WriteRow(store.lanes, c, slice),
                !.len = IF ~is_overwrite /\ store.len < cap THEN store.len + 1 ELSE store.len,
                !.cursor = (c + 1) % cap]
        ELSE [store EXCEPT
                !.len = IF store.len < cap THEN store.len + 1 ELSE store.len,
                !.cursor = (c + 1) % cap]

RECURSIVE insert_batch(_, _)
insert_batch(store, items) ==
    IF items = <<>> THEN [store |-> store, ret |-> "Ok"]
    ELSE IF Len(Head(items)) # store.ring_buffer_lane_count
         THEN [store |-> store, ret |-> "LaneCountMismatch"]
         ELSE insert_batch(insert_row(store, Head(items)), Tail(items))

RECURSIVE insert_fixed_loop(_, _)
insert_fixed_loop(store, items) ==
    IF items = <<>> THEN store
    ELSE insert_fixed_loop(insert_row(store, Head(items)), Tail(items))

\* insert_fixed::<N>: every item is a PulseCellPack<N>.
insert_fixed(store, N, items) ==
    IF N # store.ring_buffer_lane_count
    THEN [store |-> store, ret |-> "LaneCountMismatch"]
    ELSE [store |-> insert_fixed_loop(store, items), ret |-> "Ok"]

\* lane_slot that runs past the end of the lane instead of wrapping.
lane_slot_no_wrap(start_cursor, count, cap, i) == start_cursor + i

\* The physical slot the i-th value of a lane batch goes to.
lane_slot(start_cursor, count, cap, i) ==
    IF start_cursor + count <= cap THEN start_cursor + i
    ELSE LET len_to_end == cap - start_cursor
         IN  IF i < len_to_end THEN start_cursor + i ELSE i - len_to_end

insert_lane_batch(store, lane_idx, values) ==
    LET dim == store.ring_buffer_lane_count
        cap == store.capacity
        count == Len(values)
        start_cursor == store.cursor
        slots == {lane_slot(start_cursor, count, cap, i) : i \in 0..(count - 1)}
        val_at(p) == LET i == CHOOSE j \in 0..(count - 1) :
                                  lane_slot(start_cursor, count, cap, j) = p
                     IN  values[i + 1]
        new_lanes ==
            [col \in 1..Len(store.lanes) |->
                [p1 \in 1..Len(store.lanes[col]) |->
                    IF (p1 - 1) \in slots
                    THEN (IF col = lane_idx + 1 THEN val_at(p1 - 1) ELSE 0)
                    ELSE store.lanes[col][p1]]]
    IN  IF lane_idx >= dim THEN [store |-> store, ret |-> "LaneCountMismatch"]
        ELSE IF count > cap THEN [store |-> store, ret |-> "StorageFull"]
        ELSE [store |-> [store EXCEPT
                            !.lanes = IF has_mem(store) THEN new_lanes ELSE store.lanes,
                            !.len = Min(store.len + count, cap),
                            !.cursor = (store.cursor + count) % cap],
              ret |-> "Ok"]

RECURSIVE truncate_loop(_, _)
truncate_loop(store, items) ==
    IF items = <<>> THEN [store |-> store, ret |-> "Ok"]
    ELSE IF Len(Head(items)) # store.ring_buffer_lane_count
         THEN [store |-> store, ret |-> "LaneCountMismatch"]
         ELSE truncate_loop(
                [store EXCEPT
                    !.lanes = IF has_mem(store)
                              THEN WriteRow(store.lanes, store.cursor, Head(items))
                              ELSE store.lanes,
                    !.len = store.len + 1,
                    !.cursor = (store.cursor + 1) % store.capacity],
                Tail(items))

\* truncate that resets cursor and len but keeps the old cells.
truncate_no_clear(store, items) ==
    truncate_loop([store EXCEPT !.len = 0, !.cursor = 0], Take(items, store.capacity))

truncate(store, items) ==
    LET cleared == [store EXCEPT
                      !.lanes = IF has_mem(store)
                                THEN [col \in 1..Len(store.lanes) |->
                                        [p1 \in 1..Len(store.lanes[col]) |-> 0]]
                                ELSE store.lanes,
                      !.len = 0,
                      !.cursor = 0]
    IN  truncate_loop(cleared, Take(items, store.capacity))

\* lane.buffer.copy_within(index + 1..cap, index); lane.buffer[cap - 1] = 0
compact_lane(buffer, index, cap) ==
    [p1 \in 1..Len(buffer) |->
        IF p1 = cap THEN 0
        ELSE IF p1 - 1 >= index THEN buffer[p1 + 1]
        ELSE buffer[p1]]

\* delete whose compaction sets the cursor from len as it was before the decrement.
delete_stale_cursor(store, index) ==
    IF index >= store.capacity THEN [store |-> store, ret |-> FALSE]
    ELSE IF store.lanes[1][index + 1] = 0 THEN [store |-> store, ret |-> FALSE]
    ELSE LET cap == store.capacity
             zeroed == ZeroRow(store.lanes, index)
             new_len == IF store.len > 0 THEN store.len - 1 ELSE store.len
             shifted == IF index < cap - 1
                        THEN [col \in 1..Len(zeroed) |-> compact_lane(zeroed[col], index, cap)]
                        ELSE zeroed
         IN  IF store.compaction
             THEN [store |-> [store EXCEPT !.lanes = shifted, !.len = new_len,
                                           !.cursor = store.len],
                   ret |-> TRUE]
             ELSE [store |-> [store EXCEPT !.lanes = zeroed, !.len = new_len],
                   ret |-> TRUE]

delete(store, index) ==
    IF index >= store.capacity THEN [store |-> store, ret |-> FALSE]
    ELSE IF ~has_mem(store) THEN [store |-> store, ret |-> FALSE]
    ELSE IF store.lanes[1][index + 1] = 0 THEN [store |-> store, ret |-> FALSE]
    ELSE LET cap == store.capacity
             zeroed == ZeroRow(store.lanes, index)
             new_len == IF store.len > 0 THEN store.len - 1 ELSE store.len
             shifted == IF index < cap - 1
                        THEN [col \in 1..Len(zeroed) |-> compact_lane(zeroed[col], index, cap)]
                        ELSE zeroed
         IN  IF store.compaction
             THEN [store |-> [store EXCEPT !.lanes = shifted, !.len = new_len,
                                           !.cursor = new_len],
                   ret |-> TRUE]
             ELSE [store |-> [store EXCEPT !.lanes = zeroed, !.len = new_len],
                   ret |-> TRUE]

\* The physical slots whose cell in lane `index` equals `id`, ascending.
targets_of(store, index, id) ==
    SelectSeq([p1 \in 1..store.capacity |-> p1 - 1],
              LAMBDA p : store.lanes[index + 1][p + 1] = id)

\* update_rows that stops after the first hit.
update_rows_first_only(ls, targets, new_data) ==
    IF targets = <<>> THEN ls ELSE WriteRow(ls, Head(targets), new_data)

RECURSIVE update_rows(_, _, _)
update_rows(ls, targets, new_data) ==
    IF targets = <<>> THEN ls
    ELSE update_rows(WriteRow(ls, Head(targets), new_data), Tail(targets), new_data)

update_by_id(store, index, id, new_data) ==
    IF id = 0 \/ Len(new_data) # store.ring_buffer_lane_count
    THEN [store |-> store, ret |-> FALSE]
    ELSE IF index >= store.ring_buffer_lane_count THEN [store |-> store, ret |-> FALSE]
    ELSE LET targets == targets_of(store, index, id)
         IN  IF targets = <<>> THEN [store |-> store, ret |-> FALSE]
             ELSE [store |-> [store EXCEPT
                                !.lanes = update_rows(store.lanes, targets, new_data)],
                   ret |-> TRUE]

\* upsert that inserts the row even when the update matched.
upsert_always_insert(store, index, id, data) ==
    insert_batch(update_by_id(store, index, id, data).store, <<data>>)

upsert(store, index, id, data) ==
    LET u == update_by_id(store, index, id, data)
    IN  IF ~u.ret THEN insert_batch(store, <<data>>)
        ELSE [store |-> u.store, ret |-> "Ok"]

\* purge_rows that zeroes the rows but decrements len once for the whole purge.
purge_rows_one_decrement(store, targets) ==
    IF targets = <<>> THEN store
    ELSE [store EXCEPT
            !.lanes = [col \in 1..Len(store.lanes) |->
                         [p1 \in 1..Len(store.lanes[col]) |->
                            IF \E j \in 1..Len(targets) : targets[j] = p1 - 1
                            THEN 0 ELSE store.lanes[col][p1]]],
            !.len = IF store.len > 0 THEN store.len - 1 ELSE store.len]

RECURSIVE purge_rows(_, _)
purge_rows(store, targets) ==
    IF targets = <<>> THEN store
    ELSE purge_rows(
            [store EXCEPT
                !.lanes = ZeroRow(store.lanes, Head(targets)),
                !.len = IF store.len > 0 THEN store.len - 1 ELSE store.len],
            Tail(targets))

purge_by_id(store, index, id) ==
    IF id = 0 \/ index >= store.ring_buffer_lane_count THEN store
    ELSE purge_rows(store, targets_of(store, index, id))

\* ------------------------------------------------------------ read logic
\* A scan predicate F: Fn(&[PulseCell]) -> bool, as data.
\*   all            |_| true                         (Orby::take)
\*   eq(col, v)     |row| row[col] == v              (caller closure, col < D)
\*   in(col, set)   row.get(col) in targets          (Orby::find_by)
\*   range(col,a,b) a <= row.get(col) <= b           (Orby::find_custom)
filter_apply(filter, row) ==
    CASE filter.kind = "all" -> TRUE
      [] filter.kind = "eq" -> row[filter.col + 1] = filter.v
      [] filter.kind = "in" ->
            IF filter.col < Len(row) THEN row[filter.col + 1] \in filter.targets ELSE FALSE
      [] filter.kind = "range" ->
            IF filter.col < Len(row)
            THEN row[filter.col + 1] >= filter.min /\ row[filter.col + 1] <= filter.max
            ELSE FALSE

count_active(store) ==
    IF ~has_mem(store) THEN store.len
    ELSE LET limit == IF store.cursor = 0 /\ store.len > 0 THEN store.capacity
                      ELSE store.cursor
         IN  Cardinality({i \in 0..(limit - 1) : store.lanes[1][i + 1] # 0})

\* physical_idx whose wrapped branch forgets the cursor.
physical_idx_no_cursor(cur, cap, logical_index) ==
    IF cur > logical_index THEN cur - 1 - logical_index
    ELSE cap - 1 - logical_index

\* The physical slot of logical index k (0 = newest).
physical_idx(cur, cap, logical_index) ==
    IF cur > logical_index THEN cur - 1 - logical_index
    ELSE cap + cur - 1 - logical_index

\* Option<row>: <<>> is None, <<row>> is Some(row).
get_at(store, logical_index) ==
    IF logical_index >= store.len THEN <<>>
    ELSE IF ~has_mem(store) THEN <<>>
    ELSE <<RowAt(store, physical_idx(store.cursor, store.capacity, logical_index))>>

\* scan_order without the wrapped segment C-1 .. cursor.
scan_order_no_wrap(store) == RevRange(0, store.cursor)

\* The latest-first order of physical slots a scan visits.
scan_order(store) ==
    RevRange(0, store.cursor)
        \o (IF store.len = store.capacity THEN RevRange(store.cursor, store.capacity)
            ELSE <<>>)

\* scan_match without the tombstone skip.
scan_match_no_skip(store, filter, i) == filter_apply(filter, RowAt(store, i))

\* The scan's per-slot test: skip tombstones, then apply the predicate.
scan_match(store, filter, i) ==
    LET row_cells == RowAt(store, i)
    IN  IF IsTombstone(row_cells) THEN FALSE ELSE filter_apply(filter, row_cells)

\* query_raw that cuts the scan to `limit` slots before it filters.
query_raw_limit_first(store, filter, limit) ==
    LET matches == SelectSeq(Take(scan_order(store), limit),
                             LAMBDA i : scan_match(store, filter, i))
    IN  [j \in 1..Len(matches) |-> RowAt(store, matches[j])]

query_raw(store, filter, limit) ==
    IF ~has_mem(store) THEN <<>>
    ELSE LET matches == SelectSeq(scan_order(store), LAMBDA i : scan_match(store, filter, i))
             taken == Take(matches, limit)
         IN  [j \in 1..Len(taken) |-> RowAt(store, taken[j])]

\* Ascending sort of a sequence of numbers (par_sort_unstable).
RECURSIVE sort_asc(_)
sort_asc(s) ==
    IF s = <<>> THEN <<>>
    ELSE LET m == CHOOSE x \in {s[i] : i \in 1..Len(s)} :
                     \A y \in {s[i] : i \in 1..Len(s)} : x <= y
             k == CHOOSE i \in 1..Len(s) : s[i] = m
         IN  <<m>> \o sort_asc([i \in 1..(Len(s) - 1) |-> IF i < k THEN s[i] ELSE s[i + 1]])

find_indices(store, filter, limit) ==
    IF ~has_mem(store) THEN <<>>
    ELSE LET order == scan_order(store)
             indices == SelectSeq([j \in 1..Len(order) |-> j - 1],
                                  LAMBDA logical_idx :
                                      scan_match(store, filter, order[logical_idx + 1]))
         IN  Take(sort_asc(indices), limit)

\* Orby::take
take(store, limit) == query_raw(store, [kind |-> "all"], limit)

\* Orby::find_by
find_by(store, index, targets, limit) ==
    IF targets = {} THEN <<>>
    ELSE query_raw(store, [kind |-> "in", col |-> index, targets |-> targets], limit)

\* Orby::find_custom
find_custom(store, index, min, max, limit) ==
    query_raw(store, [kind |-> "range", col |-> index, min |-> min, max |-> max], limit)

\* Orby::query_iter: the iterator's state at creation.
query_iter(store) ==
    [current_idx |-> 0, cursor |-> store.cursor, cap |-> store.capacity, len |-> store.len]

\* OrbyIterator::next: [item |-> Option<row>, it |-> the iterator afterwards].
RECURSIVE OrbyIterator_next(_, _, _)
OrbyIterator_next(store, filter, it) ==
    IF ~(it.current_idx < it.len) THEN [item |-> <<>>, it |-> it]
    ELSE LET i == it.current_idx
             it1 == [it EXCEPT !.current_idx = i + 1]
             p == physical_idx(it.cursor, it.cap, i)
         IN  IF Len(store.lanes) = 0 THEN [item |-> <<>>, it |-> it1]
             ELSE LET row_data == RowAt(store, p)
                  IN  IF IsTombstone(row_data) THEN OrbyIterator_next(store, filter, it1)
                      ELSE IF filter_apply(filter, row_data)
                           THEN [item |-> <<row_data>>, it |-> it1]
                           ELSE OrbyIterator_next(store, filter, it1)

\* Draining an iterator: every item it yields until None.
RECURSIVE iter_collect(_, _, _)
iter_collect(store, filter, it) ==
    LET n == OrbyIterator_next(store, filter, it)
    IN  IF n.item = <<>> THEN <<>>
        ELSE n.item \o iter_collect(store, filter, n.it)

\* ------------------------------------------------------------ byte codecs
\* v.to_le_bytes() for an integer of n bytes.
RECURSIVE to_le_bytes(_, _)
to_le_bytes(v, n) ==
    IF n = 0 THEN <<>> ELSE <<v % 256>> \o to_le_bytes(v \div 256, n - 1)

\* u128 / u64 / u32 ::from_le_bytes(bytes)
RECURSIVE from_le_bytes(_)
from_le_bytes(bytes) ==
    IF bytes = <<>> THEN 0 ELSE bytes[1] + 256 * from_le_bytes(Tail(bytes))

\* values.iter().flat_map(|v| v.to_le_bytes()).collect()
RECURSIVE cells_to_bytes(_)
cells_to_bytes(values) ==
    IF values = <<>> THEN <<>>
    ELSE to_le_bytes(Head(values), PULSE_SIZE) \o cells_to_bytes(Tail(values))

\* buf.chunks_exact(16): the cells of a byte buffer (a trailing partial chunk is dropped).
bytes_to_cells(buf) ==
    [row \in 1..(Len(buf) \div PULSE_SIZE) |->
        from_le_bytes(SubSeq(buf, (row - 1) * PULSE_SIZE + 1, row * PULSE_SIZE))]

\* ------------------------------------------------------------- Vault files
\* FileExt::write_at: a positioned write, which extends the file when it ends
\* past the end.
write_at(f, bytes, offset) ==
    IF bytes = <<>> THEN f
    ELSE LET n == IF offset + Len(bytes) > Len(f) THEN offset + Len(bytes) ELSE Len(f)
         IN  [k \in 1..n |->
                IF k > offset /\ k <= offset + Len(bytes) THEN bytes[k - offset]
                ELSE IF k <= Len(f) THEN f[k] ELSE 0]

\* FileExt::read_at of count bytes (short at the end of the file).
read_at(f, count, offset) ==
    IF offset >= Len(f) THEN <<>>
    ELSE SubSeq(f, offset + 1, Min(offset + count, Len(f)))

\* One system call of a Vault commit on lane file `col` (1-based) or on the header.
IoStep(op, col, offset, bytes, count, src) ==
    [op |-> op, col |-> col, offset |-> offset, bytes |-> bytes, count |-> count, src |-> src]

\* The I/O of a commit: `par` holds one queue per rayon task, `seq` what runs
\* once all of them have ended.
NoIo == [par |-> <<>>, seq |-> <<>>]

\* What one system call does to the Vault.
apply_step(v, s) ==
    CASE s.op = "write_at" ->
            [v EXCEPT !.lanes[s.col] = write_at(@, s.bytes, s.offset)]
      [] s.op = "copy" ->
            [v EXCEPT !.lanes[s.col] = write_at(@, read_at(@, s.count, s.src), s.offset)]
      [] s.op = "create_truncate" -> [v EXCEPT !.lanes[s.col] = <<>>]
      [] s.op = "write_all" -> [v EXCEPT !.lanes[s.col] = @ \o s.bytes]
      [] s.op = "header_len" -> [v EXCEPT !.header.len = s.bytes]
      [] s.op = "header_cursor" -> [v EXCEPT !.header.cursor = s.bytes]
      [] OTHER -> v

RECURSIVE apply_steps(_, _)
apply_steps(v, steps) ==
    IF steps = <<>> THEN v ELSE apply_steps(apply_step(v, Head(steps)), Tail(steps))

RECURSIVE apply_queues(_, _)
apply_queues(v, queues) ==
    IF queues = <<>> THEN v
    ELSE apply_queues(apply_steps(v, Head(queues)), Tail(queues))

\* A commit run to its end, with no other writer.
run_io(v, io) == apply_steps(apply_queues(v, io.par), io.seq)

\* No Vault directory.
NoVault ==
    [exists |-> FALSE,
     header |-> [magic |-> "", cap |-> <<>>, len |-> <<>>, cursor |-> <<>>, dim |-> <<>>],
     lanes |-> <<>>]

\* Orby::init_vault: zeroed lane files of C * 16 bytes and a header with len = cursor = 0.
init_vault(store) ==
    [exists |-> TRUE,
     header |-> [magic |-> STORAGE_MAGIC_V1,
                 cap |-> to_le_bytes(store.capacity, 8),
                 len |-> to_le_bytes(0, 8),
                 cursor |-> to_le_bytes(0, 8),
                 dim |-> to_le_bytes(store.ring_buffer_lane_count, 4)],
     lanes |-> [col \in 1..store.ring_buffer_lane_count |->
                  [k \in 1..(store.capacity * PULSE_SIZE) |-> 0]]]

\* bulk_write_lane_file: one positioned write, or two when the range wraps.
bulk_write_lane_file(col, start_idx, cap, values) ==
    LET count == Len(values)
        end_idx == start_idx + count
        len_to_end == cap - start_idx
    IN  IF end_idx <= cap
        THEN <<IoStep("write_at", col, start_idx * PULSE_SIZE, cells_to_bytes(values), 0, 0)>>
        ELSE <<IoStep("write_at", col, start_idx * PULSE_SIZE,
                      cells_to_bytes(SubSeq(values, 1, len_to_end)), 0, 0),
               IoStep("write_at", col, 0,
                      cells_to_bytes(SubSeq(values, len_to_end + 1, count)), 0, 0)>>

sync_all(col) == IoStep("sync_all", col, 0, <<>>, 0, 0)

\* commit_vault_header: len at offset 24, cursor at offset 32, then fsync.
commit_vault_header(store) ==
    <<IoStep("header_len", 0, 24, to_le_bytes(store.len, 8), 0, 0),
      IoStep("header_cursor", 0, 32, to_le_bytes(store.cursor, 8), 0, 0),
      IoStep("header_sync", 0, 0, <<>>, 0, 0)>>

\* commit_vault_batch(index, rows): every lane in its own task, then the header
\* with the Silo's len and cursor as they are by then.
commit_vault_batch(store, index, rows) ==
    [par |-> [col \in 1..store.ring_buffer_lane_count |->
                LET column_data == [j \in 1..Len(rows) |->
                                       IF col <= Len(rows[j]) THEN rows[j][col] ELSE 0]
                IN  bulk_write_lane_file(col, index, store.capacity, column_data)
                        \o <<sync_all(col)>>],
     seq |-> commit_vault_header(store)]

\* The zero-fill of the lanes other than lane_idx, lane after lane.
zero_other_lanes(store, lane_idx, start_index, values) ==
    LET walk[col \in 0..store.ring_buffer_lane_count] ==
            IF col = store.ring_buffer_lane_count THEN <<>>
            ELSE (IF col = lane_idx THEN <<>>
                  ELSE bulk_write_lane_file(col + 1, start_index, store.capacity,
                                            [j \in 1..Len(values) |-> 0])
                          \o <<sync_all(col + 1)>>)
                 \o walk[col + 1]
    IN  walk[0]

\* commit_vault_lane_batch: the target lane, then the zero-fill, then the header.
commit_vault_lane_batch(store, lane_idx, start_index, values) ==
    [par |-> <<>>,
     seq |-> bulk_write_lane_file(lane_idx + 1, start_index, store.capacity, values)
                \o <<sync_all(lane_idx + 1)>>
                \o zero_other_lanes(store, lane_idx, start_index, values)
                \o commit_vault_header(store)]

\* The block moves of one lane file from current_pos on.
RECURSIVE compact_blocks(_, _, _)
compact_blocks(col, current_pos, cap) ==
    IF ~(current_pos < cap - 1) THEN <<>>
    ELSE LET to_read == Min(buf_size \div PULSE_SIZE, cap - 1 - current_pos)
         IN  IF to_read = 0 THEN <<>>
             ELSE <<IoStep("copy", col, current_pos * PULSE_SIZE, <<>>,
                           to_read * PULSE_SIZE, (current_pos + 1) * PULSE_SIZE)>>
                      \o compact_blocks(col, current_pos + to_read, cap)

\* vault_delete_and_compact(index)
vault_delete_and_compact(store, index) ==
    LET cap == store.capacity
        one_file(col) ==
            compact_blocks(col, index, cap)
                \o <<IoStep("write_at", col, (cap - 1) * PULSE_SIZE,
                            [k \in 1..PULSE_SIZE |-> 0], 0, 0),
                     sync_all(col)>>
        files[col \in 1..(store.ring_buffer_lane_count + 1)] ==
            IF col = store.ring_buffer_lane_count + 1 THEN <<>>
            ELSE one_file(col) \o files[col + 1]
    IN  IF index >= cap THEN NoIo
        ELSE [par |-> <<>>,
              seq |-> (IF index < cap - 1 THEN files[1] ELSE <<>>)
                         \o commit_vault_header(store)]

\* sleep that rewrites the lane files and leaves the header as it was.
sleep_lanes_only(store) ==
    [par |-> [col \in 1..Len(store.lanes) |->
                <<IoStep("create_truncate", col, 0, <<>>, 0, 0),
                  IoStep("write_all", col, 0, cells_to_bytes(store.lanes[col]), 0, 0),
                  sync_all(col)>>],
     seq |-> <<>>]

\* Orby::sleep: every lane file rewritten from scratch, then the header.
sleep(store) ==
    [par |-> [col \in 1..Len(store.lanes) |->
                <<IoStep("create_truncate", col, 0, <<>>, 0, 0),
                  IoStep("write_all", col, 0, cells_to_bytes(store.lanes[col]), 0, 0),
                  sync_all(col)>>],
     seq |-> commit_vault_header(store)]

\* Orby::validate_and_load_vault(strict) on a freshly built engine.
validate_and_load_vault(store, v, strict) ==
    LET v_cap == from_le_bytes(v.header.cap)
        v_len == from_le_bytes(v.header.len)
        v_cursor == from_le_bytes(v.header.cursor)
        v_dim == from_le_bytes(v.header.dim)
        loaded == [store EXCEPT
                     !.len = v_len,
                     !.cursor = v_cursor,
                     !.lanes = [col \in 1..Len(store.lanes) |->
                                  bytes_to_cells(SubSeq(v.lanes[col], 1, v_cap * PULSE_SIZE))]]
    IN  IF ~v.exists THEN [store |-> store, ret |-> "ConfigMismatch"]
        ELSE IF v.header.magic # STORAGE_MAGIC_V1
        THEN [store |-> store, ret |-> "ConfigMismatch"]
        ELSE IF v_cap # store.capacity \/ v_dim # store.ring_buffer_lane_count
        THEN [store |-> store, ret |-> "ConfigMismatch"]
        ELSE IF strict /\ \E col \in 1..v_dim : Len(v.lanes[col]) # v_cap * PULSE_SIZE
        THEN [store |-> store, ret |-> "ConfigMismatch"]
        ELSE IF \E col \in 1..v_dim : Len(v.lanes[col]) < v_cap * PULSE_SIZE
        THEN [store |-> [store EXCEPT !.len = v_len, !.cursor = v_cursor], ret |-> "Io"]
        ELSE [store |-> loaded, ret |-> "Ok"]

\* Orby::try_new: the Silo of a new engine.
try_new(cap, dim, mode, compact, aof_on) ==
    [lanes |-> [col \in 1..dim |-> OrbyRingBuffer_new(cap)],
     cursor |-> 0, len |-> 0, capacity |-> cap, ring_buffer_lane_count |-> dim,
     compaction |-> compact, aof_sender |-> aof_on, vault_path |-> mode = "Vault"]

\* build that initialises the Vault without looking for an existing one.
build_always_init(cap, dim, mode, compact, aof_on, autoload, strict, v) ==
    [ret |-> "Ok", engine |-> <<try_new(cap, dim, mode, compact, aof_on)>>,
     vault |-> init_vault(try_new(cap, dim, mode, compact, aof_on))]

\* OrbyBuilder::build without a restore path: [ret, engine (an Option of the
\* Silo), vault (the directory afterwards)].
build(cap, dim, mode, compact, aof_on, autoload, strict, v) ==
    LET engine == try_new(cap, dim, mode, compact, aof_on)
    IN  IF mode # "Vault" THEN [ret |-> "Ok", engine |-> <<engine>>, vault |-> v]
        ELSE IF v.exists /\ autoload
        THEN LET l == validate_and_load_vault(engine, v, strict)
             IN  IF l.ret = "Ok" THEN [ret |-> "Ok", engine |-> <<l.store>>, vault |-> v]
                 ELSE [ret |-> l.ret, engine |-> <<>>, vault |-> v]
        ELSE [ret |-> "Ok", engine |-> <<engine>>, vault |-> init_vault(engine)]

\* --------------------------------------------------------------- AOF bytes
\* The record insert_batch pushes for one row.
insert_record(slice) == <<AOF_OP_INSERT>> \o cells_to_bytes(slice)

\* The bytes insert_batch leaves in aof_data.
RECURSIVE insert_batch_aof(_, _)
insert_batch_aof(store, items) ==
    IF items = <<>> \/ ~store.aof_sender THEN <<>>
    ELSE IF Len(Head(items)) # store.ring_buffer_lane_count THEN <<>>
    ELSE insert_record(Head(items)) \o insert_batch_aof(store, Tail(items))

\* The bytes insert_fixed::<N> leaves in aof_data.
insert_fixed_aof(store, N, items) ==
    IF N # store.ring_buffer_lane_count THEN <<>> ELSE insert_batch_aof(store, items)

\* The bytes insert_lane_batch leaves in aof_data.
insert_lane_batch_aof(store, lane_idx, values) ==
    IF lane_idx >= store.ring_buffer_lane_count \/ Len(values) > store.capacity
       \/ ~store.aof_sender
    THEN <<>>
    ELSE <<AOF_OP_LANE_BATCH>> \o to_le_bytes(lane_idx, 4) \o to_le_bytes(Len(values), 4)
            \o cells_to_bytes(values)

\* The bytes truncate leaves in aof_data: the tag alone.
truncate_aof(store, items) == IF store.aof_sender THEN <<AOF_OP_TRUNCATE>> ELSE <<>>

\* The bytes delete leaves in aof_data: it never touches _aof_data.
delete_aof(store, index) == <<>>

\* The bytes update_by_id leaves in aof_data: one record, at the first hit.
update_by_id_aof(store, index, id, new_data) ==
    IF id = 0 \/ Len(new_data) # store.ring_buffer_lane_count THEN <<>>
    ELSE IF index >= store.ring_buffer_lane_count THEN <<>>
    ELSE IF targets_of(store, index, id) = <<>> \/ ~store.aof_sender THEN <<>>
    ELSE <<AOF_OP_UPDATE>> \o to_le_bytes(index, 4) \o to_le_bytes(id, PULSE_SIZE)
            \o cells_to_bytes(new_data)

\* The bytes upsert leaves in aof_data.
upsert_aof(store, index, id, data) ==
    IF update_by_id(store, index, id, data).ret
    THEN update_by_id_aof(store, index, id, data)
    ELSE insert_batch_aof(store, <<data>>)

\* The bytes purge_by_id leaves in aof_data.
purge_by_id_aof(store, index, id) ==
    IF id = 0 \/ index >= store.ring_buffer_lane_count \/ ~store.aof_sender THEN <<>>
    ELSE <<AOF_OP_PURGE>> \o to_le_bytes(index, 4) \o to_le_bytes(id, PULSE_SIZE)

\* ------------------------------------------------------------- the facade
\* What a facade call does: the Silo when it returns, the Vault commit it
\* awaits, the message it sends on the AOF channel (<<>> for none), its result.
Done(store, io, msg, ret) == [store |-> store, io |-> io, aof |-> msg, ret |-> ret]

\* Orby::insert_batch
api_insert_batch(store, items) ==
    IF items = <<>> THEN Done(store, NoIo, <<>>, "Ok")
    ELSE LET r == insert_batch(store, items)
         IN  IF r.ret # "Ok" THEN Done(r.store, NoIo, <<>>, r.ret)
             ELSE Done(r.store,
                       IF store.vault_path
                       THEN commit_vault_batch(r.store, store.cursor, items) ELSE NoIo,
                       insert_batch_aof(store, items), "Ok")

\* Orby::insert_fixed::<N>
api_insert_fixed(store, N, items) ==
    LET r == insert_fixed(store, N, items)
    IN  IF r.ret # "Ok" THEN Done(r.store, NoIo, <<>>, r.ret)
        ELSE Done(r.store,
                  IF store.vault_path
                  THEN commit_vault_batch(r.store, store.cursor, items) ELSE NoIo,
                  insert_fixed_aof(store, N, items), "Ok")

\* insert_lane_batch that goes on to the Vault commit and the AOF send when
\* the ring logic has refused the batch.
api_insert_lane_batch_no_bail(store, lane_idx, values) ==
    IF values = <<>> THEN Done(store, NoIo, <<>>, "Ok")
    ELSE LET r == insert_lane_batch(store, lane_idx, values)
         IN  Done(r.store,
                  IF store.vault_path
                  THEN commit_vault_lane_batch(r.store, lane_idx, store.cursor, values)
                  ELSE NoIo,
                  insert_lane_batch_aof(store, lane_idx, values), r.ret)

\* Orby::insert_lane_batch
api_insert_lane_batch(store, lane_idx, values) ==
    IF values = <<>> THEN Done(store, NoIo, <<>>, "Ok")
    ELSE LET r == insert_lane_batch(store, lane_idx, values)
         IN  IF r.ret # "Ok" THEN Done(r.store, NoIo, <<>>, r.ret)
             ELSE Done(r.store,
                       IF store.vault_path
                       THEN commit_vault_lane_batch(r.store, lane_idx, store.cursor, values)
                       ELSE NoIo,
                       insert_lane_batch_aof(store, lane_idx, values), "Ok")

\* Orby::update_by_id: no Vault commit.
api_update_by_id(store, index, id, new_data) ==
    LET r == update_by_id(store, index, id, new_data)
    IN  Done(r.store, NoIo, update_by_id_aof(store, index, id, new_data), r.ret)

\* Orby::upsert: no Vault commit.
api_upsert(store, index, id, data) ==
    LET r == upsert(store, index, id, data)
    IN  IF r.ret # "Ok" THEN Done(r.store, NoIo, <<>>, r.ret)
        ELSE Done(r.store, NoIo, upsert_aof(store, index, id, data), "Ok")

\* Orby::purge_by_id: no Vault commit.
api_purge_by_id(store, index, id) ==
    IF id = 0 THEN Done(store, NoIo, <<>>, "Ok")
    ELSE Done(purge_by_id(store, index, id), NoIo, purge_by_id_aof(store, index, id), "Ok")

\* Orby::purge_all_data: no Vault commit.
api_purge_all_data(store, rows) ==
    LET r == truncate(store, rows)
    IN  IF r.ret # "Ok" THEN Done(r.store, NoIo, <<>>, r.ret)
        ELSE Done(r.store, NoIo, truncate_aof(store, rows), "Ok")

\* Orby::delete
api_delete(store, index) ==
    LET r == delete(store, index)
        zeros == <<[col \in 1..store.ring_buffer_lane_count |-> 0]>>
    IN  Done(r.store,
             IF r.ret /\ store.vault_path
             THEN (IF store.compaction THEN vault_delete_and_compact(r.store, index)
                   ELSE commit_vault_batch(r.store, index, zeros))
             ELSE NoIo,
             delete_aof(store, index), r.ret)

\* Orby::sleep
api_sleep(store) ==
    IF ~store.vault_path THEN Done(store, NoIo, <<>>, "Custom")
    ELSE Done(store, sleep(store), <<>>, "Ok")

\* The record at the head of an AOF buffer: its length in bytes for dim lanes.
aof_record_len(buffer, dim) ==
    CASE buffer[1] = AOF_OP_INSERT -> 1 + dim * PULSE_SIZE
      [] buffer[1] = AOF_OP_PURGE -> 1 + 4 + PULSE_SIZE
      [] buffer[1] = AOF_OP_UPDATE -> 1 + 4 + PULSE_SIZE + dim * PULSE_SIZE
      [] buffer[1] = AOF_OP_TRUNCATE -> 1
      [] buffer[1] = AOF_OP_LANE_BATCH ->
            1 + 4 + 4 + from_le_bytes(SubSeq(buffer, 6, 9)) * PULSE_SIZE
      [] OTHER -> Len(buffer)

\* The slices buffer[pos..pos + n] that replay_aof takes for the record at the
\* head of the buffer all lie inside the buffer.
aof_slices_in_range(buffer, dim) ==
    IF buffer[1] = AOF_OP_LANE_BATCH
    THEN Len(buffer) >= 1 + 4 + 4 /\ Len(buffer) >= aof_record_len(buffer, dim)
    ELSE Len(buffer) >= aof_record_len(buffer, dim)

\* buffer[pos..pos + n] with pos + n > buffer.len(): the slice index panics.
aof_slice_out_of_range(store) == [store |-> store, ret |-> "panic"]

\* Orby::replay_aof: every record of the file re-issued through the facade.
RECURSIVE replay_aof(_, _)
replay_aof(store, buffer) ==
    IF buffer = <<>> THEN [store |-> store, ret |-> "Ok"]
    ELSE IF ~aof_slices_in_range(buffer, store.ring_buffer_lane_count)
    THEN aof_slice_out_of_range(store)
    ELSE LET dim == store.ring_buffer_lane_count
             op == buffer[1]
             n == aof_record_len(buffer, dim)
             rest == SubSeq(buffer, n + 1, Len(buffer))
             cells(from, count) ==
                 bytes_to_cells(SubSeq(buffer, from, from + count * PULSE_SIZE - 1))
         IN  CASE op = AOF_OP_INSERT ->
                    LET r == api_insert_batch(store, <<cells(2, dim)>>)
                    IN  IF r.ret # "Ok" THEN [store |-> r.store, ret |-> r.ret]
                        ELSE replay_aof(r.store, rest)
               [] op = AOF_OP_PURGE ->
                    replay_aof(api_purge_by_id(store, from_le_bytes(SubSeq(buffer, 2, 5)),
                                               from_le_bytes(SubSeq(buffer, 6, 21))).store,
                               rest)
               [] op = AOF_OP_UPDATE ->
                    replay_aof(api_update_by_id(store, from_le_bytes(SubSeq(buffer, 2, 5)),
                                                from_le_bytes(SubSeq(buffer, 6, 21)),
                                                cells(22, dim)).store,
                               rest)
               [] op = AOF_OP_TRUNCATE ->
                    LET r == api_purge_all_data(store, <<>>)
                    IN  IF r.ret # "Ok" THEN [store |-> r.store, ret |-> r.ret]
                        ELSE replay_aof(r.store, rest)
               [] op = AOF_OP_LANE_BATCH ->
                    LET count == from_le_bytes(SubSeq(buffer, 6, 9))
                        r == api_insert_lane_batch(store, from_le_bytes(SubSeq(buffer, 2, 5)),
                                                   cells(10, count))
                    IN  IF r.ret # "Ok" THEN [store |-> r.store, ret |-> r.ret]
                        ELSE replay_aof(r.store, rest)
               [] OTHER -> [store |-> store, ret |-> "Ok"]

\* The AOF file: the appender writes the messages in channel order.
RECURSIVE aof_file(_)
aof_file(messages) ==
    IF messages = <<>> THEN <<>> ELSE Head(messages) \o aof_file(Tail(messages))

\* ------------------------------------------------------------- the inputs
\* Rows of the configured width, and one row that is too long.
Rows(dim) == SeqsOfLen(Values, dim)
BadRow(dim) == [i \in 1..(dim + 1) |-> 1]
InputRows(dim) == Rows(dim) \cup {BadRow(dim)}

\* Rows whose cells all hold the same value.
UniformRows(dim) == {[i \in 1..dim |-> v] : v \in Values}

\* Batches of rows: every single row, and longer batches of uniform rows with
\* possibly a row of the wrong length among them.
Batches(dim) ==
    {<<>>} \cup {<<r>> : r \in InputRows(dim)}
           \cup SeqsUpTo(UniformRows(dim) \cup {BadRow(dim)}, 2, MaxBatch)

FixedBatches(dim) ==
    {<<>>} \cup {<<r>> : r \in Rows(dim)} \cup SeqsUpTo(UniformRows(dim), 2, MaxBatch)

LaneValues == SeqsUpTo(Values, 0, MaxBatch)

\* The (C, D) a Silo is built with.
Configs ==
    {cd \in (1..MaxCapacity) \X (1..MaxLaneCount) : cd[1] * cd[2] <= MaxCells}

\* The (C, D) a Silo with a Vault or with AOF is built with.
PersistConfigs == {cd \in Configs : cd[1] * cd[2] <= MaxPersistCells}

\* The tasks that call the facade, and the rows task w inserts.
Writers == 1..MaxWriters
TaskRow(w, dim) == [i \in 1..dim |-> w]
TaskBatches(w, dim) == {[j \in 1..n |-> TaskRow(w, dim)] : n \in 1..MaxBatch}

\* A task outside any facade call.
IdleTask ==
    [pc |-> "idle", rows |-> <<>>, todo |-> <<>>, start |-> 0, io |-> NoIo, msg |-> <<>>,
     calls |-> 0]

\* No reader holds an iterator.
NoIter == [alive |-> FALSE, it |-> <<>>, yielded |-> <<>>, snapshot |-> <<>>]

\* No sleep() has been called.
NoSleep == [pc |-> "idle", guard |-> FALSE, io |-> NoIo, snapshot |-> <<>>, header |-> <<>>]

\* The engine right after try_new: no call under way, the lock free, the AOF
\* channel empty and its appender spawned when AOF is enabled.
TasksAtRest ==
    /\ rwlock = [writer |-> 0, readers |-> 0]
    /\ task = [w \in Writers |-> IdleTask]
    /\ serial = [lanes |-> lanes, cursor |-> cursor, len |-> len]
    /\ channel = <<>>
    /\ worker = IF aof_enabled THEN "running" ELSE "absent"
    /\ engine_alive = TRUE
    /\ applied = <<>>
    /\ iter = NoIter
    /\ sleeper = NoSleep

\* ---------------------------------------------------------------- actions
\* Orby::try_new in MemoryOnly mode without AOF: D zeroed lanes of C cells.
Init ==
    /\ \E cd \in Configs :
          /\ capacity = cd[1]
          /\ ring_buffer_lane_count = cd[2]
          /\ lanes = [col \in 1..cd[2] |-> OrbyRingBuffer_new(cd[1])]
    /\ cursor = 0
    /\ len = 0
    /\ compaction \in BOOLEAN
    /\ inserted = <<>>
    /\ storage_mode = "MemoryOnly"
    /\ aof_enabled = FALSE
    /\ vault = NoVault
    /\ aof = <<>>
    /\ pending = NoIo
    /\ TasksAtRest

\* The write lock's critical section ends with the Silo as the ring logic left it.
Commit(store) ==
    /\ lanes' = store.lanes
    /\ cursor' = store.cursor
    /\ len' = store.len
    /\ UNCHANGED <<capacity, ring_buffer_lane_count, compaction, inserted>>

\* No Vault commit is under way.
IoIdle == pending = NoIo

\* A facade call from its lock to its return: the Silo, the awaited Vault
\* commit run to its end, the message sent on the AOF channel.
Apply(r) ==
    /\ IoIdle
    /\ r.aof # <<>> => Len(aof) < MaxLog
    /\ Commit(r.store)
    /\ vault' = run_io(vault, r.io)
    /\ aof' = IF r.aof # <<>> THEN Append(aof, r.aof) ELSE aof
    /\ UNCHANGED <<storage_mode, aof_enabled, pending>>
    /\ UNCHANGED taskVars

Orby_insert_batch ==
    \E items \in Batches(ring_buffer_lane_count) : Apply(api_insert_batch(Silo, items))

Orby_insert_fixed ==
    \/ \E items \in FixedBatches(ring_buffer_lane_count) :
          Apply(api_insert_fixed(Silo, ring_buffer_lane_count, items))
    \/ Apply(api_insert_fixed(Silo, ring_buffer_lane_count + 1,
                              <<BadRow(ring_buffer_lane_count)>>))

Orby_insert_lane_batch ==
    \E lane_idx \in 0..ring_buffer_lane_count, values \in LaneValues :
        Apply(api_insert_lane_batch(Silo, lane_idx, values))

Orby_update_by_id ==
    \E index \in 0..ring_buffer_lane_count, id \in Values,
       new_data \in InputRows(ring_buffer_lane_count) :
        Apply(api_update_by_id(Silo, index, id, new_data))

Orby_upsert ==
    \E index \in 0..ring_buffer_lane_count, id \in Values,
       data \in InputRows(ring_buffer_lane_count) :
        Apply(api_upsert(Silo, index, id, data))

Orby_purge_by_id ==
    \E index \in 0..ring_buffer_lane_count, id \in Values :
        Apply(api_purge_by_id(Silo, index, id))

Orby_delete ==
    \E index \in 0..capacity : Apply(api_delete(Silo, index))

Orby_purge_all_data ==
    \E rows \in Batches(ring_buffer_lane_count) : Apply(api_purge_all_data(Silo, rows))

Next ==
    \/ Orby_insert_batch
    \/ Orby_insert_fixed
    \/ Orby_insert_lane_batch
    \/ Orby_update_by_id
    \/ Orby_upsert
    \/ Orby_purge_by_id
    \/ Orby_delete
    \/ Orby_purge_all_data

Spec == Init /\ [][Next]_vars

\* ------------------------------------------------------------ Vault mode
\* OrbyBuilder::build in Vault mode over a directory that does not exist yet.
InitVault ==
    /\ \E cd \in PersistConfigs, compact \in BOOLEAN :
          LET b == build(cd[1], cd[2], "Vault", compact, FALSE, TRUE, TRUE, NoVault)
          IN  /\ capacity = cd[1]
              /\ ring_buffer_lane_count = cd[2]
              /\ compaction = compact
              /\ lanes = b.engine[1].lanes
              /\ cursor = b.engine[1].cursor
              /\ len = b.engine[1].len
              /\ vault = b.vault
    /\ inserted = <<>>
    /\ storage_mode = "Vault"
    /\ aof_enabled = FALSE
    /\ aof = <<>>
    /\ pending = NoIo
    /\ TasksAtRest

Orby_sleep == Apply(api_sleep(Silo))

\* insert_batch of C + MaxOverrun rows of ones.
Orby_insert_batch_long ==
    Apply(api_insert_batch(Silo, [j \in 1..(capacity + MaxOverrun) |->
                                     [i \in 1..ring_buffer_lane_count |-> 1]]))

\* The engine is dropped and built again with the same name, C, D and
\* directory, autoload and strict_check at their defaults.
OrbyBuilder_build ==
    /\ IoIdle
    /\ LET b == build(capacity, ring_buffer_lane_count, storage_mode, compaction,
                      aof_enabled, TRUE, TRUE, vault)
       IN  /\ b.ret = "Ok"
           /\ Commit(b.engine[1])
           /\ vault' = b.vault
    /\ UNCHANGED <<storage_mode, aof_enabled, aof, pending>>
    /\ UNCHANGED taskVars

NextVault ==
    \/ Next
    \/ Orby_sleep
    \/ Orby_insert_batch_long
    \/ OrbyBuilder_build

SpecVault == InitVault /\ [][NextVault]_vars

\* ------------------------------------------------- Vault commits, step by step
\* A facade call up to the release of its lock; its Vault commit is left to run.
Begin(r) ==
    /\ IoIdle
    /\ Commit(r.store)
    /\ pending' = r.io
    /\ UNCHANGED <<storage_mode, aof_enabled, vault, aof>>
    /\ UNCHANGED taskVars

Begin_insert_batch ==
    \E items \in Batches(ring_buffer_lane_count) : Begin(api_insert_batch(Silo, items))

Begin_insert_lane_batch ==
    \E lane_idx \in 0..ring_buffer_lane_count, values \in LaneValues :
        Begin(api_insert_lane_batch(Silo, lane_idx, values))

Begin_delete ==
    \E index \in 0..capacity : Begin(api_delete(Silo, index))

Begin_sleep == Begin(api_sleep(Silo))

\* One system call of one of the commit's parallel lane tasks.
LaneTaskStep ==
    \E q \in 1..Len(pending.par) :
        /\ pending.par[q] # <<>>
        /\ vault' = apply_step(vault, Head(pending.par[q]))
        /\ pending' = [pending EXCEPT !.par[q] = Tail(@)]
        /\ UNCHANGED <<lanes, cursor, len, capacity, ring_buffer_lane_count, compaction,
                       inserted, storage_mode, aof_enabled, aof>>
        /\ UNCHANGED taskVars

\* One system call of what the commit does once its lane tasks have ended;
\* the last one ends the commit.
AfterTasksStep ==
    /\ \A q \in 1..Len(pending.par) : pending.par[q] = <<>>
    /\ pending.seq # <<>>
    /\ vault' = apply_step(vault, Head(pending.seq))
    /\ pending' = IF Len(pending.seq) = 1 THEN NoIo
                  ELSE [par |-> pending.par, seq |-> Tail(pending.seq)]
    /\ UNCHANGED <<lanes, cursor, len, capacity, ring_buffer_lane_count, compaction,
                   inserted, storage_mode, aof_enabled, aof>>
    /\ UNCHANGED taskVars

NextCommit ==
    \/ Begin_insert_batch
    \/ Begin_insert_lane_batch
    \/ Begin_delete
    \/ Begin_sleep
    \/ LaneTaskStep
    \/ AfterTasksStep

SpecCommit == InitVault /\ [][NextCommit]_vars

\* ---------------------------------------------------------------- AOF mode
\* Orby::try_new in MemoryOnly mode with enable_aof(true).
InitAof ==
    /\ \E cd \in PersistConfigs, compact \in BOOLEAN :
          LET b == build(cd[1], cd[2], "MemoryOnly", compact, TRUE, TRUE, TRUE, NoVault)
          IN  /\ capacity = cd[1]
              /\ ring_buffer_lane_count = cd[2]
              /\ compaction = compact
              /\ lanes = b.engine[1].lanes
              /\ cursor = b.engine[1].cursor
              /\ len = b.engine[1].len
    /\ inserted = <<>>
    /\ storage_mode = "MemoryOnly"
    /\ aof_enabled = TRUE
    /\ vault = NoVault
    /\ aof = <<>>
    /\ pending = NoIo
    /\ TasksAtRest

NextAof == Next

SpecAof == InitAof /\ [][NextAof]_vars

\* ------------------------------------------------- the insert-only history
\* Rows carrying marker m: m in at least one lane, 0 or m in the others.
MarkedRows(dim, m) == {r \in [1..dim -> {0, m}] : \E d \in 1..dim : r[d] = m}

InitWrap == Init

\* One single-row Orby::insert_batch of a row carrying the next marker.
InsertMarked ==
    /\ Len(inserted) < capacity + MaxWrap
    /\ \E row \in MarkedRows(ring_buffer_lane_count, Len(inserted) + 1) :
          LET store == insert_batch(Silo, <<row>>).store
          IN  /\ lanes' = store.lanes
              /\ cursor' = store.cursor
              /\ len' = store.len
              /\ inserted' = Append(inserted, row)
              /\ UNCHANGED <<capacity, ring_buffer_lane_count, compaction,
                             storage_mode, aof_enabled, vault, aof, pending>>
              /\ UNCHANGED taskVars

NextWrap == InsertMarked

SpecWrap == InitWrap /\ [][NextWrap]_vars

\* ---------------------------------------------------- concurrent callers
\* RwLock::write is granted whatever the lock holds.
no_writer_unchecked == TRUE
no_reader_unchecked == TRUE

\* parking_lot::RwLock: write() needs no writer and no reader, read() no writer.
no_writer == rwlock.writer = 0
no_reader == rwlock.readers = 0

\* The history Silo after one more insert_batch(items) run on its own.
SerialAfter(items) ==
    LET s == insert_batch([Silo EXCEPT !.lanes = serial.lanes, !.cursor = serial.cursor,
                                       !.len = serial.len], items).store
    IN  [lanes |-> s.lanes, cursor |-> s.cursor, len |-> s.len]

\* Orby::insert_batch, `let mut store = self.inner.write()`: task w takes the
\* write lock for a batch of its rows and notes the cursor as start_idx.
Orby_insert_batch_lock(w) ==
    /\ engine_alive
    /\ task[w].pc = "idle"
    /\ task[w].calls < MaxCalls
    /\ no_writer
    /\ no_reader
    /\ \E items \in TaskBatches(w, ring_buffer_lane_count) :
          /\ task' = [task EXCEPT ![w] = [pc |-> "locked", rows |-> items, todo |-> items,
                                          start |-> cursor, io |-> NoIo, msg |-> <<>>,
                                          calls |-> @.calls + 1]]
          /\ serial' = SerialAfter(items)
    /\ rwlock' = [rwlock EXCEPT !.writer = w]
    /\ UNCHANGED <<lanes, cursor, len, capacity, ring_buffer_lane_count, compaction, inserted,
                   storage_mode, aof_enabled, vault, aof, pending,
                   channel, worker, engine_alive, applied, iter>>
    /\ UNCHANGED sleeper

\* Where a call goes once its lock is released: the Vault commit, the AOF
\* send, or its return.
AfterUnlock(w, t) ==
    IF storage_mode = "Vault"
    THEN [t EXCEPT !.pc = "commit",
                   !.io = [par |-> commit_vault_batch(Silo, t.start, t.rows).par,
                           seq |-> <<>>]]
    ELSE IF t.msg # <<>> THEN [t EXCEPT !.pc = "send"]
    ELSE [t EXCEPT !.pc = "idle"]

\* ring::insert_batch, one turn of its loop, under the write lock: the length
\* check, the AOF record, the cells, len and the cursor. A row of the wrong
\* length ends the call there, the lock being released by `?`.
ring_insert_batch_row(w) ==
    /\ task[w].pc = "locked"
    /\ task[w].todo # <<>>
    /\ LET slice == Head(task[w].todo)
       IN  IF Len(slice) # ring_buffer_lane_count
           THEN /\ task' = [task EXCEPT ![w] = [@ EXCEPT !.pc = "idle", !.todo = <<>>,
                                                         !.msg = <<>>]]
                /\ rwlock' = [rwlock EXCEPT !.writer = 0]
                /\ UNCHANGED <<lanes, cursor, len, capacity, ring_buffer_lane_count,
                               compaction, inserted>>
           ELSE /\ Commit(insert_row(Silo, slice))
                /\ task' = [task EXCEPT ![w] =
                              [@ EXCEPT !.todo = Tail(@),
                                        !.msg = IF aof_enabled
                                                THEN @ \o insert_record(slice) ELSE @]]
                /\ UNCHANGED rwlock
    /\ UNCHANGED <<storage_mode, aof_enabled, vault, aof, pending,
                   serial, channel, worker, engine_alive, applied, iter>>
    /\ UNCHANGED sleeper

\* Orby::insert_batch, the end of the block that holds the write guard.
Orby_insert_batch_unlock(w) ==
    /\ task[w].pc = "locked"
    /\ task[w].todo = <<>>
    /\ rwlock' = [rwlock EXCEPT !.writer = 0]
    /\ task' = [task EXCEPT ![w] = AfterUnlock(w, @)]
    /\ applied' = IF task[w].msg # <<>> THEN Append(applied, task[w].msg) ELSE applied
    /\ UNCHANGED <<lanes, cursor, len, capacity, ring_buffer_lane_count, compaction, inserted,
                   storage_mode, aof_enabled, vault, aof, pending,
                   serial, channel, worker, engine_alive, iter>>
    /\ UNCHANGED sleeper

\* commit_vault_batch: one system call of one of its lane tasks.
commit_vault_batch_lane_step(w) ==
    /\ task[w].pc = "commit"
    /\ \E q \in 1..Len(task[w].io.par) :
          /\ task[w].io.par[q] # <<>>
          /\ vault' = apply_step(vault, Head(task[w].io.par[q]))
          /\ task' = [task EXCEPT ![w].io.par[q] = Tail(@)]
    /\ UNCHANGED <<lanes, cursor, len, capacity, ring_buffer_lane_count, compaction, inserted,
                   storage_mode, aof_enabled, aof, pending,
                   rwlock, serial, channel, worker, engine_alive, applied, iter>>
    /\ UNCHANGED sleeper

\* commit_vault_header, `let store = self.inner.read()`: once its lane tasks
\* have ended the commit reads len and cursor as they are in memory by then.
commit_vault_header_read(w) ==
    /\ task[w].pc = "commit"
    /\ \A q \in 1..Len(task[w].io.par) : task[w].io.par[q] = <<>>
    /\ no_writer
    /\ task' = [task EXCEPT ![w] = [@ EXCEPT !.pc = "header",
                                             !.io = [par |-> <<>>,
                                                     seq |-> commit_vault_header(Silo)]]]
    /\ UNCHANGED <<lanes, cursor, len, capacity, ring_buffer_lane_count, compaction, inserted,
                   storage_mode, aof_enabled, vault, aof, pending,
                   rwlock, serial, channel, worker, engine_alive, applied, iter>>
    /\ UNCHANGED sleeper

\* commit_vault_header: one write to header.bin; after the last one the call
\* goes on to its AOF send or returns.
commit_vault_header_step(w) ==
    /\ task[w].pc = "header"
    /\ task[w].io.seq # <<>>
    /\ vault' = apply_step(vault, Head(task[w].io.seq))
    /\ task' = [task EXCEPT ![w] =
                  IF Len(@.io.seq) > 1 THEN [@ EXCEPT !.io.seq = Tail(@)]
                  ELSE [@ EXCEPT !.io = NoIo,
                                 !.pc = IF task[w].msg # <<>> THEN "send" ELSE "idle"]]
    /\ UNCHANGED <<lanes, cursor, len, capacity, ring_buffer_lane_count, compaction, inserted,
                   storage_mode, aof_enabled, aof, pending,
                   rwlock, serial, channel, worker, engine_alive, applied, iter>>
    /\ UNCHANGED sleeper

\* Orby::insert_batch, `sender.send(aof_data).await`: the buffer enters the
\* channel when the channel has room; until then the call waits.
Sender_send(w) ==
    /\ task[w].pc = "send"
    /\ Len(channel) < MaxChannel
    /\ channel' = Append(channel, task[w].msg)
    /\ task' = [task EXCEPT ![w] = [@ EXCEPT !.pc = "idle", !.msg = <<>>]]
    /\ UNCHANGED <<lanes, cursor, len, capacity, ring_buffer_lane_count, compaction, inserted,
                   storage_mode, aof_enabled, vault, aof, pending,
                   rwlock, serial, worker, engine_alive, applied, iter>>
    /\ UNCHANGED sleeper

\* rx.recv() that hands out the newest buffer of the channel.
recv_newest(ch) == [data |-> ch[Len(ch)], rest |-> SubSeq(ch, 1, Len(ch) - 1)]

\* Receiver::recv on a channel that holds a buffer: the oldest one.
recv(ch) == [data |-> Head(ch), rest |-> Tail(ch)]

\* spawn_aof_worker, one turn of `while let Some(data) = rx.recv().await`:
\* the buffer is appended to the file and flushed.
AofWorker_write ==
    /\ worker = "running"
    /\ channel # <<>>
    /\ aof' = Append(aof, recv(channel).data)
    /\ channel' = recv(channel).rest
    /\ UNCHANGED <<lanes, cursor, len, capacity, ring_buffer_lane_count, compaction, inserted,
                   storage_mode, aof_enabled, vault, pending,
                   rwlock, task, serial, worker, engine_alive, applied, iter>>
    /\ UNCHANGED sleeper

\* spawn_aof_worker: recv() returns None, the channel being empty and every
\* Sender dropped, and the task ends.
AofWorker_exit ==
    /\ worker = "running"
    /\ channel = <<>>
    /\ ~engine_alive
    /\ worker' = "terminated"
    /\ UNCHANGED <<lanes, cursor, len, capacity, ring_buffer_lane_count, compaction, inserted,
                   storage_mode, aof_enabled, vault, aof, pending,
                   rwlock, task, serial, channel, engine_alive, applied, iter>>
    /\ UNCHANGED sleeper

\* The last handle of the engine is dropped, no call being under way: the
\* Silo goes, and with it the Sender it holds.
Orby_drop ==
    /\ engine_alive
    /\ \A w \in Writers : task[w].pc = "idle"
    /\ ~iter.alive
    /\ engine_alive' = FALSE
    /\ UNCHANGED <<lanes, cursor, len, capacity, ring_buffer_lane_count, compaction, inserted,
                   storage_mode, aof_enabled, vault, aof, pending,
                   rwlock, task, serial, channel, worker, applied, iter>>
    /\ UNCHANGED sleeper

\* Orby::query_iter, `let store = self.inner.read()`: the iterator takes a
\* read guard and keeps it.
Orby_query_iter ==
    /\ engine_alive
    /\ ~iter.alive
    /\ no_writer
    /\ rwlock' = [rwlock EXCEPT !.readers = @ + 1]
    /\ iter' = [alive |-> TRUE, it |-> query_iter(Silo), yielded |-> <<>>,
                snapshot |-> Silo]
    /\ UNCHANGED <<lanes, cursor, len, capacity, ring_buffer_lane_count, compaction, inserted,
                   storage_mode, aof_enabled, vault, aof, pending,
                   task, serial, channel, worker, engine_alive, applied>>
    /\ UNCHANGED sleeper

\* OrbyIterator::next with the filter that accepts every row.
OrbyIterator_next_item ==
    /\ iter.alive
    /\ LET n == OrbyIterator_next(Silo, [kind |-> "all"], iter.it)
       IN  /\ n.item # <<>>
           /\ iter' = [iter EXCEPT !.it = n.it, !.yielded = @ \o n.item]
    /\ UNCHANGED <<lanes, cursor, len, capacity, ring_buffer_lane_count, compaction, inserted,
                   storage_mode, aof_enabled, vault, aof, pending,
                   rwlock, task, serial, channel, worker, engine_alive, applied>>
    /\ UNCHANGED sleeper

\* The iterator is dropped, and its read guard with it.
OrbyIterator_drop ==
    /\ iter.alive
    /\ rwlock' = [rwlock EXCEPT !.readers = @ - 1]
    /\ iter' = NoIter
    /\ UNCHANGED <<lanes, cursor, len, capacity, ring_buffer_lane_count, compaction, inserted,
                   storage_mode, aof_enabled, vault, aof, pending,
                   task, serial, channel, worker, engine_alive, applied>>
    /\ UNCHANGED sleeper

\* Orby::sleep, `let store = inner.read()` in its blocking task: the read
\* guard is taken and the lane files are to be rewritten from the lanes.
Orby_sleep_lock ==
    /\ engine_alive
    /\ storage_mode = "Vault"
    /\ sleeper.pc = "idle"
    /\ no_writer
    /\ rwlock' = [rwlock EXCEPT !.readers = @ + 1]
    /\ sleeper' = [pc |-> "lanes", guard |-> TRUE,
                   io |-> [par |-> sleep(Silo).par, seq |-> <<>>],
                   snapshot |-> [lanes |-> lanes, cursor |-> cursor, len |-> len],
                   header |-> <<>>]
    /\ UNCHANGED <<lanes, cursor, len, capacity, ring_buffer_lane_count, compaction, inserted,
                   storage_mode, aof_enabled, vault, aof, pending,
                   task, serial, channel, worker, engine_alive, applied, iter>>

\* Orby::sleep: one system call of one of the par_iter lane tasks (truncating
\* open, write, sync_all).
Orby_sleep_lane_step ==
    /\ sleeper.pc = "lanes"
    /\ \E q \in 1..Len(sleeper.io.par) :
          /\ sleeper.io.par[q] # <<>>
          /\ vault' = apply_step(vault, Head(sleeper.io.par[q]))
          /\ sleeper' = [sleeper EXCEPT !.io.par[q] = Tail(@)]
    /\ UNCHANGED <<lanes, cursor, len, capacity, ring_buffer_lane_count, compaction, inserted,
                   storage_mode, aof_enabled, aof, pending,
                   rwlock, task, serial, channel, worker, engine_alive, applied, iter>>

\* Orby::sleep: the blocking task ends and its read guard is dropped.
Orby_sleep_unlock ==
    /\ sleeper.pc = "lanes"
    /\ \A q \in 1..Len(sleeper.io.par) : sleeper.io.par[q] = <<>>
    /\ rwlock' = [rwlock EXCEPT !.readers = @ - 1]
    /\ sleeper' = [sleeper EXCEPT !.pc = "unlocked", !.guard = FALSE, !.io = NoIo]
    /\ UNCHANGED <<lanes, cursor, len, capacity, ring_buffer_lane_count, compaction, inserted,
                   storage_mode, aof_enabled, vault, aof, pending,
                   task, serial, channel, worker, engine_alive, applied, iter>>

\* Orby::sleep, `self.commit_vault_header()`: len and cursor are read from
\* the Silo under a read guard of their own.
Orby_sleep_header_read ==
    /\ sleeper.pc = "unlocked"
    /\ no_writer
    /\ sleeper' = [sleeper EXCEPT !.pc = "header",
                                  !.io = [par |-> <<>>, seq |-> commit_vault_header(Silo)],
                                  !.header = [len |-> len, cursor |-> cursor]]
    /\ UNCHANGED <<lanes, cursor, len, capacity, ring_buffer_lane_count, compaction, inserted,
                   storage_mode, aof_enabled, vault, aof, pending,
                   rwlock, task, serial, channel, worker, engine_alive, applied, iter>>

\* Orby::sleep: one write of commit_vault_header; after the last one sleep()
\* returns.
Orby_sleep_header_step ==
    /\ sleeper.pc = "header"
    /\ sleeper.io.seq # <<>>
    /\ vault' = apply_step(vault, Head(sleeper.io.seq))
    /\ sleeper' = IF Len(sleeper.io.seq) > 1 THEN [sleeper EXCEPT !.io.seq = Tail(@)]
                  ELSE [sleeper EXCEPT !.io = NoIo, !.pc = "done"]
    /\ UNCHANGED <<lanes, cursor, len, capacity, ring_buffer_lane_count, compaction, inserted,
                   storage_mode, aof_enabled, aof, pending,
                   rwlock, task, serial, channel, worker, engine_alive, applied, iter>>

\* Writers and one reader on an engine in memory.
NextLock ==
    \/ \E w \in Writers : Orby_insert_batch_lock(w)
    \/ \E w \in Writers : ring_insert_batch_row(w)
    \/ \E w \in Writers : Orby_insert_batch_unlock(w)
    \/ Orby_query_iter
    \/ OrbyIterator_next_item
    \/ OrbyIterator_drop

SpecLock == Init /\ [][NextLock]_vars

\* Writers on an engine with a Vault.
NextVaultTasks ==
    \/ \E w \in Writers : Orby_insert_batch_lock(w)
    \/ \E w \in Writers : ring_insert_batch_row(w)
    \/ \E w \in Writers : Orby_insert_batch_unlock(w)
    \/ \E w \in Writers : commit_vault_batch_lane_step(w)
    \/ \E w \in Writers : commit_vault_header_read(w)
    \/ \E w \in Writers : commit_vault_header_step(w)

SpecVaultTasks == InitVault /\ [][NextVaultTasks]_vars

\* Writers on an engine with AOF, and the appender.
NextChannel ==
    \/ \E w \in Writers : Orby_insert_batch_lock(w)
    \/ \E w \in Writers : ring_insert_batch_row(w)
    \/ \E w \in Writers : Orby_insert_batch_unlock(w)
    \/ \E w \in Writers : Sender_send(w)
    \/ AofWorker_write
    \/ AofWorker_exit
    \/ Orby_drop

\* The appender is a spawned task of its own: it runs whenever it can.
SpecChannel ==
    InitAof /\ [][NextChannel]_vars /\ WF_vars(AofWorker_write) /\ WF_vars(AofWorker_exit)

\* One writer and one call of sleep() on an engine with a Vault.
NextSleep ==
    \/ Orby_insert_batch_lock(1)
    \/ ring_insert_batch_row(1)
    \/ Orby_insert_batch_unlock(1)
    \/ commit_vault_batch_lane_step(1)
    \/ commit_vault_header_read(1)
    \/ commit_vault_header_step(1)
    \/ Orby_sleep_lock
    \/ Orby_sleep_lane_step
    \/ Orby_sleep_unlock
    \/ Orby_sleep_header_read
    \/ Orby_sleep_header_step

SpecSleep == InitVault /\ [][NextSleep]_vars

\* ------------------------------------------------------------- the claims
\* The predicates a caller hands to query_raw, query_iter and find_indices.
Filters(dim) ==
    {[kind |-> "all"]} \cup {[kind |-> "eq", col |-> c, v |-> v] : c \in 0..(dim - 1), v \in Values}

Limits == 0..(capacity + 1)

\* The row at physical slot i is live: some lane holds a non-zero cell there.
Live(i) == \E col \in 1..ring_buffer_lane_count : lanes[col][i + 1] # 0

\* No row of a result is all-zero.
NoTombstone(rows) == \A j \in 1..Len(rows) : \E col \in 1..Len(rows[j]) : rows[j][col] # 0

\* The k-th smallest (k = 1, 2, ...) member of a set of numbers.
KthOf(S, k) == CHOOSE x \in S : Cardinality({y \in S : y < x}) = k - 1

\* The members of a set of numbers in ascending order, cut to n.
AscendingPrefix(S, n) == [j \in 1..Min(n, Cardinality(S)) |-> KthOf(S, j)]

\* C1: in every reachable state the Silo has exactly D lanes of exactly C cells,
\* with C >= 1, D >= 1, 0 <= cursor < C and 0 <= len <= C.
C1_ShapeAndBounds ==
    /\ capacity >= 1
    /\ ring_buffer_lane_count >= 1
    /\ Len(lanes) = ring_buffer_lane_count
    /\ \A col \in 1..Len(lanes) : Len(lanes[col]) = capacity
    /\ cursor \in 0..(capacity - 1)
    /\ len \in 0..capacity

\* C1 witness: a full ring whose cursor stands on the last slot.
C1_Witness == capacity >= 2 /\ len = capacity /\ cursor = capacity - 1

\* C2: once more than C marked rows have been inserted one by one into an empty
\* Silo, take(C) is exactly the last C inserted rows, newest first.
C2_WrapAround ==
    Len(inserted) > capacity =>
        take(Silo, capacity) = [j \in 1..capacity |-> inserted[Len(inserted) + 1 - j]]

\* C2 witness: the ring has wrapped by MaxWrap rows.
C2_Witness == capacity >= 2 /\ Len(inserted) = capacity + MaxWrap

\* C3: query_raw(P, limit) is the first `limit` live rows satisfying P met on the
\* walk cursor-1, ..., 0 and then, when len = C, C-1, ..., cursor.
C3_ScanOrder ==
    \A f \in Filters(ring_buffer_lane_count), limit \in Limits :
        LET r == query_raw(Silo, f, limit)
            n == IF len = capacity THEN capacity ELSE cursor
            walk(k) == (cursor - 1 - k) % capacity
            hits == {k \in 0..(n - 1) : Live(walk(k)) /\ filter_apply(f, RowAt(Silo, walk(k)))}
            want == AscendingPrefix(hits, limit)
        IN  /\ Len(r) <= limit
            /\ Len(r) = Len(want)
            /\ \A j \in 1..Len(r) : r[j] = RowAt(Silo, walk(want[j]))

\* C3 witness: a full, wrapped ring whose two newest rows differ, so that the
\* order shows and a limit of 1 cuts the result.
C3_Witness ==
    /\ len = capacity
    /\ cursor > 0
    /\ Len(take(Silo, capacity)) = capacity
    /\ take(Silo, capacity)[1] # take(Silo, capacity)[capacity]
    /\ Len(take(Silo, 1)) = 1

\* C4 (as claimed): with limit >= C, query_raw(P, limit) returns every live row
\* satisfying P.
C4_AllLiveReturned ==
    \A f \in Filters(ring_buffer_lane_count), limit \in capacity..(capacity + 1) :
        Len(query_raw(Silo, f, limit)) =
            Cardinality({i \in 0..(capacity - 1) : Live(i) /\ filter_apply(f, RowAt(Silo, i))})

\* C5: no query returns an all-zero row, and find_indices returns no logical
\* index whose row is all-zero, whatever the predicate.
C5_TombstoneSkip ==
    \A limit \in Limits :
        /\ NoTombstone(take(Silo, limit))
        /\ \A f \in Filters(ring_buffer_lane_count) :
              /\ NoTombstone(query_raw(Silo, f, limit))
              /\ NoTombstone(iter_collect(Silo, f, query_iter(Silo)))
              /\ LET ix == find_indices(Silo, f, limit)
                 IN  \A j \in 1..Len(ix) : Live((cursor - 1 - ix[j]) % capacity)
        /\ \A index \in 0..ring_buffer_lane_count :
              /\ \A targets \in SUBSET Values : NoTombstone(find_by(Silo, index, targets, limit))
              /\ \A min \in Values, max \in Values :
                    NoTombstone(find_custom(Silo, index, min, max, limit))

\* C5 witness: the scan meets an all-zero row before a live one.
C5_Witness ==
    /\ cursor >= 2
    /\ ~Live(cursor - 1)
    /\ Live(cursor - 2)
    /\ Len(take(Silo, capacity)) >= 1

\* C6 (as claimed): len is the number of live rows.
C6_LenCountsLive == len = Cardinality({i \in 0..(capacity - 1) : Live(i)})

\* C7 (as claimed): a single insert of a row with some non-zero cell leaves
\* lanes[0][cursor_before] non-zero and the cursor at (cursor_before + 1) mod C.
C7_InsertMarksLane0 ==
    \A row \in Rows(ring_buffer_lane_count) :
        ~IsTombstone(row) =>
            LET after == insert_batch(Silo, <<row>>).store
            IN  /\ after.lanes[1][cursor + 1] # 0
                /\ after.cursor = (cursor + 1) % capacity

\* C7 (amended): a single insert of a row whose lane-0 cell is non-zero leaves
\* lanes[0][cursor_before] non-zero and the cursor at (cursor_before + 1) mod C;
\* for any row, every lane d holds row[d] at cursor_before afterwards.
C7_InsertWritesRow ==
    \A row \in Rows(ring_buffer_lane_count) :
        LET after == insert_batch(Silo, <<row>>).store
        IN  /\ row[1] # 0 => after.lanes[1][cursor + 1] # 0
            /\ \A col \in 1..ring_buffer_lane_count : after.lanes[col][cursor + 1] = row[col]
            /\ after.cursor = (cursor + 1) % capacity

\* C7 witness: the slot just behind the cursor holds a row whose lane-0 cell is
\* zero and whose lane-1 cell is not, on a ring that has wrapped.
C7_Witness ==
    /\ ring_buffer_lane_count >= 2
    /\ len = capacity
    /\ lanes[1][((cursor - 1) % capacity) + 1] = 0
    /\ lanes[2][((cursor - 1) % capacity) + 1] # 0

\* C8: get_at(k) is None for k >= len and otherwise the row at physical slot
\* (cursor - 1 - k) mod C.
C8_GetAt ==
    \A k \in 0..(capacity + 1) :
        get_at(Silo, k) =
            IF k >= len THEN <<>> ELSE <<RowAt(Silo, (cursor - 1 - k) % capacity)>>

\* C8 witness: a wrapped ring where logical index `cursor` lies behind the wrap
\* and holds another row than logical index 0.
C8_Witness ==
    /\ cursor > 0
    /\ cursor < len
    /\ get_at(Silo, cursor) # <<>>
    /\ get_at(Silo, cursor) # get_at(Silo, 0)

\* C9 (as claimed): find_indices(P, limit) is, ascending, the first `limit`
\* logical indices k < len for which get_at(k) is a live row satisfying P.
C9_FindIndicesMatchGetAt ==
    \A f \in Filters(ring_buffer_lane_count), limit \in Limits :
        LET good == {k \in 0..(capacity - 1) :
                        /\ k < len
                        /\ get_at(Silo, k) # <<>>
                        /\ ~IsTombstone(get_at(Silo, k)[1])
                        /\ filter_apply(f, get_at(Silo, k)[1])}
        IN  find_indices(Silo, f, limit) = AscendingPrefix(good, limit)

\* What upsert(ix, id, row) does to the rows, the cursor and, but for the case
\* of an insert, len; `grows` tells when an insert adds one to len.
UpsertEffect(index, id, data, grows) ==
    LET after == upsert(Silo, index, id, data).store
        hits == IF index < ring_buffer_lane_count /\ id # 0
                THEN {i \in 0..(capacity - 1) : lanes[index + 1][i + 1] = id}
                ELSE {}
    IN  IF hits # {}
        THEN /\ after.len = len
             /\ after.cursor = cursor
             /\ \A i \in 0..(capacity - 1) :
                    RowAt(after, i) = IF i \in hits THEN data ELSE RowAt(Silo, i)
        ELSE /\ after.len = IF grows THEN len + 1 ELSE len
             /\ after.cursor = (cursor + 1) % capacity
             /\ \A i \in 0..(capacity - 1) :
                    RowAt(after, i) = IF i = cursor THEN data ELSE RowAt(Silo, i)

\* C10 (as claimed): upsert overwrites every row whose lane ix holds id and
\* leaves len and cursor alone; with no such row it writes the row at the
\* cursor, advances the cursor by one mod C and adds one to len when len < C.
C10_UpsertGrowsUnlessFull ==
    \A index \in 0..ring_buffer_lane_count, id \in Values,
       data \in Rows(ring_buffer_lane_count) :
        UpsertEffect(index, id, data, len < capacity)

\* C10 (amended): as claimed, but an insert adds one to len only when len < C
\* and the cursor slot's lane-0 cell is zero (the insert overwrites no row).
C10_UpsertEffect ==
    \A index \in 0..ring_buffer_lane_count, id \in Values,
       data \in Rows(ring_buffer_lane_count) :
        UpsertEffect(index, id, data, len < capacity /\ lanes[1][cursor + 1] = 0)

\* C10 witness: two rows share a lane-0 id (an upsert of it overwrites both),
\* another id is absent, and the cursor stands on a live row although len < C.
C10_Witness ==
    /\ len < capacity
    /\ lanes[1][cursor + 1] # 0
    /\ \E i \in 0..(capacity - 1), j \in 0..(capacity - 1) :
          i # j /\ lanes[1][i + 1] # 0 /\ lanes[1][i + 1] = lanes[1][j + 1]
    /\ \E id \in Values : id # 0 /\ \A i \in 0..(capacity - 1) : lanes[1][i + 1] # id

\* C11: update_by_id(ix, id, row) with id # 0, ix < D and |row| = D returns true
\* iff some slot has lanes[ix] = id, replaces the whole row at every such slot
\* and leaves every other slot, cursor and len alone; with id = 0, ix >= D or
\* |row| # D it returns false and changes nothing.
C11_UpdateById ==
    \A index \in 0..ring_buffer_lane_count, id \in Values,
       new_data \in InputRows(ring_buffer_lane_count) :
        LET u == update_by_id(Silo, index, id, new_data)
            ok == id # 0 /\ index < ring_buffer_lane_count
                         /\ Len(new_data) = ring_buffer_lane_count
            hits == IF ok THEN {i \in 0..(capacity - 1) : lanes[index + 1][i + 1] = id}
                    ELSE {}
        IN  /\ u.ret = (hits # {})
            /\ u.store.cursor = cursor
            /\ u.store.len = len
            /\ \A i \in 0..(capacity - 1) :
                  RowAt(u.store, i) = IF i \in hits THEN new_data ELSE RowAt(Silo, i)

\* C11 witness: two slots share a non-zero lane-1 value that a third slot does
\* not hold, so an update by that value hits two rows and spares one.
C11_Witness ==
    /\ ring_buffer_lane_count >= 2
    /\ \E i \in 0..(capacity - 1), j \in 0..(capacity - 1) :
          /\ i # j
          /\ lanes[2][i + 1] # 0
          /\ lanes[2][i + 1] = lanes[2][j + 1]
          /\ RowAt(Silo, i) # RowAt(Silo, j)

C13_InsertLaneBatch ==
    \A lane_idx \in 0..(ring_buffer_lane_count - 1), values \in LaneValues :
        (Len(values) >= 1 /\ Len(values) <= capacity) =>
            LET k == Len(values)
                r == insert_lane_batch(Silo, lane_idx, values)
                written == {(cursor + i) % capacity : i \in 0..(k - 1)}
            IN  /\ r.ret = "Ok"
                /\ \A i \in 0..(k - 1), col \in 1..ring_buffer_lane_count :
                      r.store.lanes[col][((cursor + i) % capacity) + 1] =
                          IF col = lane_idx + 1 THEN values[i + 1] ELSE 0
                /\ \A p \in 0..(capacity - 1) :
                      p \notin written => RowAt(r.store, p) = RowAt(Silo, p)
                /\ r.store.len = Min(len + k, capacity)
                /\ r.store.cursor = (cursor + k) % capacity

\* C13 witness: the cursor stands on the last slot of a ring of two lanes whose
\* first slot holds a row with both lanes set: a batch of two values wraps and
\* has to zero the other lane there.
C13_Witness ==
    /\ ring_buffer_lane_count >= 2
    /\ capacity >= 2
    /\ cursor = capacity - 1
    /\ lanes[1][1] # 0
    /\ lanes[2][1] # 0

\* The batches of purge_all_data whose rows all have D cells.
WellFormed(rows) == \A j \in 1..Len(rows) : Len(rows[j]) = ring_buffer_lane_count

\* C14: purge_all_data(rows) with well-formed rows leaves rows[i] at slot i for
\* i < m = min(|rows|, C) and zeroes elsewhere, len = m and cursor = m mod C;
\* every row a query returns is one of the provided rows, and get_at(0) is the
\* last provided row that was kept.
C14_PurgeAllData ==
    \A rows \in Batches(ring_buffer_lane_count) :
        WellFormed(rows) =>
            LET t == truncate(Silo, rows)
                m == Min(Len(rows), capacity)
                got == take(t.store, capacity + 1)
            IN  /\ t.ret = "Ok"
                /\ \A i \in 0..(capacity - 1) :
                      RowAt(t.store, i) = IF i < m THEN rows[i + 1]
                                          ELSE [col \in 1..ring_buffer_lane_count |-> 0]
                /\ t.store.len = m
                /\ t.store.cursor = m % capacity
                /\ \A j \in 1..Len(got) : \E i \in 1..m : got[j] = rows[i]
                /\ m >= 1 => get_at(t.store, 0) = <<rows[m]>>
                /\ m = 0 => get_at(t.store, 0) = <<>>

\* C14 witness: a full ring of live rows, so that a reset with fewer rows has
\* content to discard.
C14_Witness ==
    /\ capacity >= 2
    /\ len = capacity
    /\ \A i \in 0..(capacity - 1) : Live(i)

\* ------------------------------------------------------------ persistence
\* Every lane file of the directory v is C * 16 bytes long and decodes to the
\* lane the store holds in memory.
LaneFilesMatch(store, v) ==
    /\ Len(v.lanes) = store.ring_buffer_lane_count
    /\ \A col \in 1..store.ring_buffer_lane_count :
          /\ Len(v.lanes[col]) = store.capacity * PULSE_SIZE
          /\ bytes_to_cells(v.lanes[col]) = store.lanes[col]

\* The header of the directory v records the store's C, len, cursor and D.
HeaderMatches(store, v) ==
    /\ v.header.magic = STORAGE_MAGIC_V1
    /\ from_le_bytes(v.header.cap) = store.capacity
    /\ from_le_bytes(v.header.len) = store.len
    /\ from_le_bytes(v.header.cursor) = store.cursor
    /\ from_le_bytes(v.header.dim) = store.ring_buffer_lane_count

\* The engine is dropped and built again over the directory v with the same
\* C and D, autoload and strict_check on.
Reopened(store, v) ==
    build(store.capacity, store.ring_buffer_lane_count, "Vault", store.compaction,
          store.aof_sender, TRUE, TRUE, v)

\* C15: in Vault mode, once sleep() has returned Ok after any sequence of
\* mutations, every lane file is C * 16 bytes long and holds the memory lane,
\* the header records the Silo's len, cursor, D and C, and an engine rebuilt
\* with autoload over the directory reports the same len and the same take(C).
C15_SleepRoundTrip ==
    (storage_mode = "Vault" /\ IoIdle) =>
        LET r == api_sleep(Silo)
            v == run_io(vault, r.io)
            b == Reopened(Silo, v)
        IN  /\ r.ret = "Ok"
            /\ r.store = Silo
            /\ v.exists
            /\ LaneFilesMatch(Silo, v)
            /\ HeaderMatches(Silo, v)
            /\ b.ret = "Ok"
            /\ b.engine # <<>>
            /\ b.engine[1].len = len
            /\ take(b.engine[1], capacity) = take(Silo, capacity)

\* C15 witness: a wrapped ring of live rows whose lane files and header both
\* lag behind memory, so that sleep() has lanes and header to bring up to date.
C15_Witness ==
    /\ storage_mode = "Vault"
    /\ IoIdle
    /\ capacity >= 2
    /\ len = capacity
    /\ \A i \in 0..(capacity - 1) : Live(i)
    /\ RowAt(Silo, 0) # RowAt(Silo, 1)
    /\ ~LaneFilesMatch(Silo, vault)
    /\ ~HeaderMatches(Silo, vault)

\* The directory v holds the store: lane files and header agree with memory,
\* and an engine rebuilt over v reports the same len and take(C).
VaultInSync(store, v) ==
    /\ LaneFilesMatch(store, v)
    /\ HeaderMatches(store, v)
    /\ LET b == Reopened(store, v)
       IN  /\ b.ret = "Ok"
           /\ b.engine # <<>>
           /\ b.engine[1].len = store.len
           /\ take(b.engine[1], store.capacity) = take(store, store.capacity)

\* The facade call r, made now, leaves the Vault in sync with memory.
WrittenThrough(r) == VaultInSync(r.store, run_io(vault, r.io))

\* C16: in Vault mode with the Vault in sync, after any mutating facade
\* operation (insert_batch, insert_fixed, insert_lane_batch, update_by_id,
\* upsert, purge_by_id, purge_all_data, delete) has returned successfully, and
\* without sleep(), the lane files and the header's len and cursor equal the
\* memory lanes, len and cursor, and a rebuild with autoload gives the same len
\* and take(C).
C16_VaultWriteThrough ==
    (storage_mode = "Vault" /\ IoIdle /\ VaultInSync(Silo, vault)) =>
        /\ \A items \in Batches(ring_buffer_lane_count) :
              LET r == api_insert_batch(Silo, items)
              IN  r.ret = "Ok" => WrittenThrough(r)
        /\ \A items \in FixedBatches(ring_buffer_lane_count) :
              LET r == api_insert_fixed(Silo, ring_buffer_lane_count, items)
              IN  r.ret = "Ok" => WrittenThrough(r)
        /\ \A lane_idx \in 0..ring_buffer_lane_count, values \in LaneValues :
              LET r == api_insert_lane_batch(Silo, lane_idx, values)
              IN  r.ret = "Ok" => WrittenThrough(r)
        /\ \A index \in 0..ring_buffer_lane_count, id \in Values,
              new_data \in InputRows(ring_buffer_lane_count) :
              LET r == api_update_by_id(Silo, index, id, new_data)
              IN  r.ret => WrittenThrough(r)
        /\ \A index \in 0..ring_buffer_lane_count, id \in Values,
              data \in InputRows(ring_buffer_lane_count) :
              LET r == api_upsert(Silo, index, id, data)
              IN  r.ret = "Ok" => WrittenThrough(r)
        /\ \A index \in 0..ring_buffer_lane_count, id \in Values :
              WrittenThrough(api_purge_by_id(Silo, index, id))
        /\ \A rows \in Batches(ring_buffer_lane_count) :
              LET r == api_purge_all_data(Silo, rows)
              IN  r.ret = "Ok" => WrittenThrough(r)
        /\ \A index \in 0..capacity :
              LET r == api_delete(Silo, index)
              IN  r.ret => WrittenThrough(r)

\* C17: a rebuild with autoload over an existing Vault whose header C or D
\* differs from the configured C or D fails with ConfigMismatch before any
\* state change: the directory (lane files and header) is left as it was and
\* no engine is returned.
C17_ConfigMismatch ==
    (storage_mode = "Vault" /\ IoIdle /\ vault.exists) =>
        \A cd \in Configs, compact \in BOOLEAN, strict \in BOOLEAN :
            (\/ cd[1] # from_le_bytes(vault.header.cap)
             \/ cd[2] # from_le_bytes(vault.header.dim)) =>
                LET b == build(cd[1], cd[2], "Vault", compact, aof_enabled, TRUE, strict,
                               vault)
                IN  /\ b.ret = "ConfigMismatch"
                    /\ b.engine = <<>>
                    /\ b.vault = vault

\* C17 witness: a Vault holding live rows, written by an engine of capacity 2,
\* while capacity 1 and capacity 3 are configurations a rebuild can ask for.
C17_Witness ==
    /\ storage_mode = "Vault"
    /\ IoIdle
    /\ vault.exists
    /\ from_le_bytes(vault.header.cap) = 2
    /\ from_le_bytes(vault.header.len) >= 1
    /\ \E col \in 1..Len(vault.lanes) : \E k \in 1..Len(vault.lanes[col]) :
          vault.lanes[col][k] # 0
    /\ \E cd \in Configs : cd[1] # from_le_bytes(vault.header.cap)

\* The Silo that replaying the messages, in channel order, into an empty Silo
\* with the same C and D gives.
Replayed(messages) ==
    replay_aof(try_new(capacity, ring_buffer_lane_count, "MemoryOnly", compaction, FALSE),
               aof_file(messages)).store

\* Two Silos with the same observable state: len, cursor and take(C).
SameObservable(a, b) ==
    /\ a.len = b.len
    /\ a.cursor = b.cursor
    /\ take(a, capacity) = take(b, capacity)

\* After the facade call r the log, with the message of r appended when there
\* is one, replays to the observable state of the live Silo.
ReplayFollows(r) ==
    SameObservable(Replayed(IF r.aof # <<>> THEN Append(aof, r.aof) ELSE aof), r.store)

\* C18: with AOF enabled, when the log so far replays to the lanes, len and
\* cursor of the live Silo, it still replays to the live Silo's len, cursor and
\* take(C) after one more successful insert_batch, update_by_id, upsert,
\* purge_by_id, purge_all_data(rows) or insert_lane_batch call.
C18_ReplayEquivalence ==
    (/\ aof_enabled
     /\ Replayed(aof).lanes = lanes
     /\ Replayed(aof).len = len
     /\ Replayed(aof).cursor = cursor) =>
        /\ \A items \in Batches(ring_buffer_lane_count) :
              LET r == api_insert_batch(Silo, items)
              IN  r.ret = "Ok" => ReplayFollows(r)
        /\ \A index \in 0..ring_buffer_lane_count, id \in Values,
              new_data \in InputRows(ring_buffer_lane_count) :
              LET r == api_update_by_id(Silo, index, id, new_data)
              IN  r.ret => ReplayFollows(r)
        /\ \A index \in 0..ring_buffer_lane_count, id \in Values,
              data \in InputRows(ring_buffer_lane_count) :
              LET r == api_upsert(Silo, index, id, data)
              IN  r.ret = "Ok" => ReplayFollows(r)
        /\ \A index \in 0..ring_buffer_lane_count, id \in Values :
              ReplayFollows(api_purge_by_id(Silo, index, id))
        /\ \A rows \in Batches(ring_buffer_lane_count) :
              LET r == api_purge_all_data(Silo, rows)
              IN  r.ret = "Ok" => ReplayFollows(r)
        /\ \A lane_idx \in 0..ring_buffer_lane_count, values \in LaneValues :
              LET r == api_insert_lane_batch(Silo, lane_idx, values)
              IN  r.ret = "Ok" => ReplayFollows(r)

\* The facade call r, if it changes the Silo, sends a message on the AOF channel.
Logged(r) == r.store # Silo => r.aof # <<>>

\* C19: with AOF enabled, every facade operation that returns successfully and
\* changes the Silo, delete(index) with or without compaction included, sends
\* an AOF record.
C19_EveryMutationLogged ==
    aof_enabled =>
        /\ \A items \in Batches(ring_buffer_lane_count) :
              LET r == api_insert_batch(Silo, items)
              IN  r.ret = "Ok" => Logged(r)
        /\ \A items \in FixedBatches(ring_buffer_lane_count) :
              LET r == api_insert_fixed(Silo, ring_buffer_lane_count, items)
              IN  r.ret = "Ok" => Logged(r)
        /\ \A lane_idx \in 0..ring_buffer_lane_count, values \in LaneValues :
              LET r == api_insert_lane_batch(Silo, lane_idx, values)
              IN  r.ret = "Ok" => Logged(r)
        /\ \A index \in 0..ring_buffer_lane_count, id \in Values,
              new_data \in InputRows(ring_buffer_lane_count) :
              LET r == api_update_by_id(Silo, index, id, new_data)
              IN  r.ret => Logged(r)
        /\ \A index \in 0..ring_buffer_lane_count, id \in Values,
              data \in InputRows(ring_buffer_lane_count) :
              LET r == api_upsert(Silo, index, id, data)
              IN  r.ret = "Ok" => Logged(r)
        /\ \A index \in 0..ring_buffer_lane_count, id \in Values :
              Logged(api_purge_by_id(Silo, index, id))
        /\ \A rows \in Batches(ring_buffer_lane_count) :
              LET r == api_purge_all_data(Silo, rows)
              IN  r.ret = "Ok" => Logged(r)
        /\ \A index \in 0..capacity :
              LET r == api_delete(Silo, index)
              IN  r.ret => Logged(r)

\* The slot of the k-th newest row the header of the directory v counts.
CountedSlot(v, k) ==
    (from_le_bytes(v.header.cursor) + capacity - 1 - k) % capacity

\* C20: at every crash point of a Vault commit (insert batch, lane batch,
\* delete, sleep) run without concurrent writers, every row the on-disk header
\* counts has its cell on disk in every lane file.
C20_HeaderCountsDurableRows ==
    (storage_mode = "Vault" /\ vault.exists) =>
        \A k \in 0..(capacity - 1) :
            k < from_le_bytes(vault.header.len) =>
                \A col \in 1..ring_buffer_lane_count :
                    Len(vault.lanes[col]) >= (CountedSlot(vault, k) + 1) * PULSE_SIZE

\* ---------------------------------------------------------- error handling
\* The Silo of the facade outcome r is the Silo as it stands.
SiloUntouched(r) ==
    /\ r.store.lanes = lanes
    /\ r.store.cursor = cursor
    /\ r.store.len = len

\* C25: insert_batch given a batch with a row whose length differs from D, at
\* any position, and upsert falling through to the insert with such a row,
\* return LaneCountMismatch and leave lanes, cursor and len as they were.
C25_BadRowRejectedWhole ==
    /\ \A items \in Batches(ring_buffer_lane_count) :
          (\E j \in 1..Len(items) : Len(items[j]) # ring_buffer_lane_count) =>
              LET r == api_insert_batch(Silo, items)
              IN  r.ret = "LaneCountMismatch" /\ SiloUntouched(r)
    /\ \A index \in 0..ring_buffer_lane_count, id \in Values :
          LET r == api_upsert(Silo, index, id, BadRow(ring_buffer_lane_count))
          IN  r.ret = "LaneCountMismatch" /\ SiloUntouched(r)

\* C26: purge_all_data(rows) given a row whose length differs from D (here
\* among the first C rows, the ones the reset looks at) returns
\* LaneCountMismatch and leaves the previous lanes, cursor and len unchanged.
C26_BadResetKeepsData ==
    \A rows \in Batches(ring_buffer_lane_count) :
        (\E j \in 1..Min(Len(rows), capacity) : Len(rows[j]) # ring_buffer_lane_count) =>
            LET r == api_purge_all_data(Silo, rows)
            IN  r.ret = "LaneCountMismatch" /\ SiloUntouched(r)

\* The Silo as an engine with AOF on or off and with or without a Vault holds it.
SiloWith(aof_on, vault_on) == [Silo EXCEPT !.aof_sender = aof_on, !.vault_path = vault_on]

\* The lane batch r was refused with the error err: nothing changed in memory,
\* nothing was logged and nothing was written to the Vault.
LaneBatchRefused(r, err) ==
    /\ r.ret = err
    /\ SiloUntouched(r)
    /\ r.aof = <<>>
    /\ r.io = NoIo

\* C27 as stated: insert_lane_batch with a lane index >= D returns
\* LaneCountMismatch, and with more than C values returns StorageFull, for any
\* values; lanes, cursor and len are unchanged, no AOF record and no Vault write
\* is produced.
C27_LaneBatchRefusedAnyValues ==
    \A aof_on \in BOOLEAN, vault_on \in BOOLEAN, values \in LaneValues :
        /\ LaneBatchRefused(api_insert_lane_batch(SiloWith(aof_on, vault_on),
                                                  ring_buffer_lane_count, values),
                            "LaneCountMismatch")
        /\ Len(values) > capacity =>
              \A lane_idx \in 0..(ring_buffer_lane_count - 1) :
                  LaneBatchRefused(api_insert_lane_batch(SiloWith(aof_on, vault_on),
                                                         lane_idx, values),
                                   "StorageFull")

\* C27: insert_lane_batch with at least one value and a lane index >= D returns
\* LaneCountMismatch, and with more than C values for a lane < D returns
\* StorageFull; lanes, cursor and len are unchanged, no AOF record and no Vault
\* write is produced, with AOF on or off and with or without a Vault.
C27_LaneBatchRefused ==
    \A aof_on \in BOOLEAN, vault_on \in BOOLEAN, values \in LaneValues \ {<<>>} :
        /\ LaneBatchRefused(api_insert_lane_batch(SiloWith(aof_on, vault_on),
                                                  ring_buffer_lane_count, values),
                            "LaneCountMismatch")
        /\ Len(values) > capacity =>
              \A lane_idx \in 0..(ring_buffer_lane_count - 1) :
                  LaneBatchRefused(api_insert_lane_batch(SiloWith(aof_on, vault_on),
                                                         lane_idx, values),
                                   "StorageFull")

\* C27 witness: a Silo of capacity 1 holding a live row, for which a lane batch
\* of two values is too long and a refused batch has a row to leave alone.
C27_Witness ==
    /\ capacity = 1
    /\ capacity < MaxBatch
    /\ len = 1
    /\ Live(0)

\* C28: in Vault mode, after initialization and after any sequence of facade
\* operations, an insert_batch of more than C rows included, every lane file
\* is exactly C * 16 bytes long.
C28_LaneFileSize ==
    (storage_mode = "Vault" /\ IoIdle) =>
        /\ vault.exists
        /\ Len(vault.lanes) = ring_buffer_lane_count
        /\ \A col \in 1..ring_buffer_lane_count :
              Len(vault.lanes[col]) = capacity * PULSE_SIZE

\* ------------------------------------------------------------ concurrency
\* The slots whose lane-0 cell in the lane file of the directory v is not zero:
\* the rows that have reached the disk.
WrittenSlots(v) ==
    {s \in 0..(capacity - 1) :
        /\ Len(v.lanes[1]) >= (s + 1) * PULSE_SIZE
        /\ from_le_bytes(SubSeq(v.lanes[1], s * PULSE_SIZE + 1, (s + 1) * PULSE_SIZE)) # 0}

\* C21: with two or more tasks inserting live rows concurrently in Vault mode,
\* at every instant the on-disk header counts no row that has not been written
\* to the lane files: its len is at most the number of rows on disk.
C21_HeaderCountsWrittenRows ==
    (storage_mode = "Vault" /\ vault.exists) =>
        from_le_bytes(vault.header.len) <= Cardinality(WrittenSlots(vault))

\* s can be obtained from t by leaving elements out, the order being kept.
RECURSIVE InOrderOf(_, _)
InOrderOf(s, t) ==
    IF s = <<>> THEN TRUE
    ELSE IF t = <<>> THEN FALSE
    ELSE IF Head(s) = Head(t) THEN InOrderOf(Tail(s), Tail(t))
    ELSE InOrderOf(s, Tail(t))

\* C22: with concurrent writers and the AOF on, the buffers written to the
\* file and those waiting in the channel are in the order in which the calls
\* that produced them released the write lock.
C22_AofInLockOrder ==
    aof_enabled => InOrderOf(aof \o channel, applied)

\* C23: the in-memory effects of concurrent insert_batch calls are those of
\* the calls run one after the other in the order they took the write lock:
\* at most one call is inside its locked section, no reader holds the lock
\* meanwhile, and whenever the lock has no writer the lanes, the cursor and len
\* equal those of that serial execution (so the rows of one batch occupy
\* consecutive slots modulo the capacity).
C23_WritesLinearize ==
    /\ Cardinality({w \in Writers : task[w].pc = "locked"}) <= 1
    /\ \A w \in Writers : task[w].pc = "locked" => rwlock.writer = w /\ rwlock.readers = 0
    /\ rwlock.writer = 0 =>
          /\ lanes = serial.lanes
          /\ cursor = serial.cursor
          /\ len = serial.len

\* Every writer has completed a call, one of them with a batch of several
\* rows that wrapped around the ring's end, and the lock is free.
C23_Witness ==
    /\ rwlock.writer = 0
    /\ \A w \in Writers : task[w].calls >= 1 /\ task[w].pc = "idle"
    /\ \E w \in Writers : Len(task[w].rows) >= 2 /\ task[w].start + Len(task[w].rows) > capacity
    /\ \E w1, w2 \in Writers : w1 # w2 /\ task[w1].start # task[w2].start

\* C24: while an iterator made by query_iter is alive no writer holds the
\* lock and the Silo is the one it was made on, and what it has yielded
\* followed by what it has yet to yield is what a scan of the Silo at the time
\* of query_iter would yield.
C24_IteratorHoldsSnapshot ==
    iter.alive =>
        /\ rwlock.readers > 0
        /\ rwlock.writer = 0
        /\ \A w \in Writers : task[w].pc # "locked"
        /\ Silo = iter.snapshot
        /\ iter.yielded \o iter_collect(Silo, [kind |-> "all"], iter.it)
             = iter_collect(iter.snapshot, [kind |-> "all"], query_iter(iter.snapshot))

\* An iterator that has yielded a row and has rows left, on a ring written by
\* the tasks, while a task is about to ask for the write lock again.
C24_Witness ==
    /\ iter.alive
    /\ iter.yielded # <<>>
    /\ iter_collect(Silo, [kind |-> "all"], iter.it) # <<>>
    /\ \E w \in Writers : task[w].pc = "idle" /\ task[w].calls \in 1..(MaxCalls - 1)

\* C29: handing the AOF bytes to the channel never waits: a call that has
\* reached its send can always go on, whatever the channel holds.
C29_SendNeverWaits ==
    \A w \in Writers : task[w].pc = "send" => ENABLED Sender_send(w)

\* C30: the appender writes the buffers in the order of the channel, oldest
\* first, and once the engine and its Sender are dropped it writes every
\* buffer still in the channel and then ends: from then on the channel is
\* empty and the file holds as many buffers as were produced.
C30_AppenderDrainsAndExits ==
    /\ [][aof' # aof => /\ channel # <<>>
                        /\ aof' = Append(aof, Head(channel))
                        /\ channel' = Tail(channel)]_vars
    /\ [](worker = "terminated" => channel = <<>> /\ Len(aof) = Len(applied))
    /\ (aof_enabled /\ ~engine_alive) ~> (worker = "terminated")

\* The appender has ended after writing buffers of every task, three at least.
C30_Witness ==
    /\ worker = "terminated"
    /\ Len(aof) >= 3
    /\ \A w \in Writers : \E k \in 1..Len(aof) :
          SubSeq(aof[k], 1, 1 + PULSE_SIZE * ring_buffer_lane_count)
             = insert_record(TaskRow(w, ring_buffer_lane_count))

\* ------------------------------------------------------------------ delete
\* Lane by lane, the lanes a and b hold the same cells at every slot but idx.
SameButSlot(a, b, idx) ==
    \A col \in 1..Len(a) : \A i \in 1..Len(a[col]) : i # idx + 1 => a[col][i] = b[col][i]

\* The effect of a successful sparse delete at idx: the slot zeroed in every
\* lane, len one less, the cursor and every other slot as they were.
SparseDeleted(r, idx) ==
    /\ \A col \in 1..ring_buffer_lane_count : r.store.lanes[col][idx + 1] = 0
    /\ SameButSlot(r.store.lanes, lanes, idx)
    /\ r.store.len = len - 1
    /\ r.store.cursor = cursor

\* C31: without compaction delete(idx) returns true exactly when idx < C and
\* the row at slot idx is live (not all-zero); then it zeroes the slot in every
\* lane, takes one off len and leaves the cursor and the other slots alone;
\* when it returns false nothing changes.
C31_SparseDelete ==
    ~compaction =>
        \A idx \in 0..capacity :
            LET r == api_delete(Silo, idx)
            IN  /\ r.ret = (idx < capacity /\ Live(idx))
                /\ r.ret => SparseDeleted(r, idx)
                /\ ~r.ret => SiloUntouched(r)

\* The effect of a successful compacting delete at idx: in every lane the slots
\* from idx on hold what the next slot held, the last slot is zero, the slots
\* below idx are as they were; len is one less and the cursor equals it.
CompactDeleted(r, idx) ==
    /\ \A col \in 1..ring_buffer_lane_count :
          /\ \A i \in 0..(capacity - 1) :
                r.store.lanes[col][i + 1] =
                    IF i < idx THEN lanes[col][i + 1]
                    ELSE IF i < capacity - 1 THEN lanes[col][i + 2]
                    ELSE 0
    /\ r.store.len = len - 1
    /\ r.store.cursor = r.store.len

\* C32: with compaction on, delete(idx) on a live slot idx returns true and
\* shifts every lane left by one slot from idx, zeroes the last slot, leaves
\* the slots below idx alone, takes one off len and sets the cursor to len.
C32_CompactingDelete ==
    compaction =>
        \A idx \in 0..(capacity - 1) :
            Live(idx) =>
                LET r == api_delete(Silo, idx)
                IN  r.ret /\ CompactDeleted(r, idx)

\* C33: in Vault mode with compaction on and the Vault holding the memory
\* image, after delete(idx) has returned for a live idx in [0, C), idx = C-1
\* included, every lane file equals the memory lane and the header's len and
\* cursor equal the Silo's.
C33_CompactingDeleteOnDisk ==
    (storage_mode = "Vault" /\ compaction /\ IoIdle
        /\ LaneFilesMatch(Silo, vault) /\ HeaderMatches(Silo, vault)) =>
        \A idx \in 0..(capacity - 1) :
            Live(idx) =>
                LET r == api_delete(Silo, idx)
                    v == run_io(vault, r.io)
                IN  LaneFilesMatch(r.store, v) /\ HeaderMatches(r.store, v)

\* ------------------------------------------------------ sleep() and callers
\* C34: no operation does file I/O while it holds the Silo's lock: a writer
\* inside its locked section has no file step to take, and neither has
\* sleep() while it holds its read guard.
C34_IoOutsideLock ==
    /\ \A w \in Writers :
          task[w].pc = "locked" =>
              ~ENABLED commit_vault_batch_lane_step(w) /\ ~ENABLED commit_vault_header_step(w)
    /\ sleeper.guard => ~ENABLED Orby_sleep_lane_step

\* C38: when sleep() runs next to writers, the len and cursor it writes to the
\* header are those of the Silo whose lanes it wrote to the lane files.
C38_SleepWritesOneSnapshot ==
    sleeper.pc \in {"header", "done"} =>
        /\ sleeper.header.len = sleeper.snapshot.len
        /\ sleeper.header.cursor = sleeper.snapshot.cursor

\* ------------------------------------------------------------- AOF replay
\* The engine replay_aof starts from: a new, empty one of the same shape.
NewEngine == try_new(capacity, ring_buffer_lane_count, "MemoryOnly", compaction, FALSE)

\* The number of bytes the complete records at the head of the buffer take.
RECURSIVE whole_records_len(_, _)
whole_records_len(buffer, dim) ==
    IF buffer = <<>> THEN 0
    ELSE IF ~aof_slices_in_range(buffer, dim) THEN 0
    ELSE LET n == aof_record_len(buffer, dim)
         IN  n + whole_records_len(SubSeq(buffer, n + 1, Len(buffer)), dim)

\* C35: replaying an AOF file cut inside its last record (as a crash during
\* an append leaves it) returns the error InvalidFormat, and the Silo is the
\* one the complete records before the cut replay to.
C35_TruncatedReplay ==
    aof_enabled =>
        LET file == aof_file(aof)
        IN  \A k \in 1..Len(file) :
                LET cut == SubSeq(file, 1, k)
                    whole == SubSeq(cut, 1, whole_records_len(cut, ring_buffer_lane_count))
                IN  Len(whole) < k =>
                        LET r == replay_aof(NewEngine, cut)
                        IN  /\ r.ret = "InvalidFormat"
                            /\ r.store = replay_aof(NewEngine, whole).store

\* ------------------------------------------------------ iterator and scan
\* C36: in every reachable state, for every predicate P, draining
\* query_iter(P) yields the rows of query_raw(P, limit) with limit >= C, in
\* the same order.
C36_IteratorAgreesWithScan ==
    \A filter \in Filters(ring_buffer_lane_count) :
        iter_collect(Silo, filter, query_iter(Silo)) = query_raw(Silo, filter, capacity)

\* take(C) of the Silo as it stands with the row of slot idx left out: the
\* live rows of the other slots in latest-first order.
TakeWithout(idx) ==
    LET kept == SelectSeq(scan_order(Silo),
                          LAMBDA i : i # idx /\ ~IsTombstone(RowAt(Silo, i)))
    IN  [j \in 1..Len(kept) |-> RowAt(Silo, kept[j])]

\* C37: with compaction on, after delete(idx) has succeeded, on a ring that
\* has wrapped as on any other, take(C) is the take(C) of before with the
\* deleted row removed: the surviving rows keep their latest-first order and
\* none is lost.
C37_CompactionKeepsOrder ==
    compaction =>
        \A idx \in 0..(capacity - 1) :
            LET r == api_delete(Silo, idx)
            IN  r.ret => take(r.store, capacity) = TakeWithout(idx)

\* ------------------------------------------------- concurrent Vault commits
\* C39: once the insert_batch calls issued concurrently in Vault mode have all
\* returned, every lane file holds the memory lane.
C39_VaultFollowsMemoryOrder ==
    (storage_mode = "Vault" /\ rwlock.writer = 0 /\ \A w \in Writers : task[w].pc = "idle") =>
        LaneFilesMatch(Silo, vault)

\* ------------------------------------------------------------ count_active
\* C40: after any sequence of insert_batch calls whose rows all have a
\* non-zero lane-0 cell, and nothing else, on a ring that has wrapped as on
\* one that has not, count_active() equals len.
C40_CountActiveIsLen ==
    (\A j \in 1..Len(inserted) : inserted[j][1] # 0) => count_active(Silo) = len

====
